---- MODULE Spec2Model ----
(***************************************************************************)
(* PCI identifier database of the node_exporter pcidevice collector       *)
(* (collector/pci_ids.go): pciIDProvider.load and the four accessors      *)
(* getVendorName, getDeviceName, getSubsystemName and getClassName.       *)
(*                                                                         *)
(* A Go string is a sequence of one-character strings, so that prefixes,   *)
(* separators, letter case and slicing are computed and not assumed.       *)
(***************************************************************************)
EXTENDS Naturals, Sequences, FiniteSets, TLC

(***************************************************************************)
(* Bounds of the model.                                                    *)
(***************************************************************************)
\* Longest database file (in lines) of the exhaustive part of Init.
MaxLines == 3

(***************************************************************************)
(* Go's strings package, on sequences of characters.                       *)
(***************************************************************************)
Str0x == <<"0", "x">>

Sep == <<" ", " ">>

TabTab == <<"\t", "\t">>

TabTabTab == <<"\t", "\t", "\t">>

\* unicode.IsSpace on the characters a line can hold.
IsSpace(c) == c \in {" ", "\t", "\n", "\r", "\f"}

UpperLetters ==
    <<"A", "B", "C", "D", "E", "F", "G", "H", "I", "J", "K", "L", "M",
      "N", "O", "P", "Q", "R", "S", "T", "U", "V", "W", "X", "Y", "Z">>

LowerLetters ==
    <<"a", "b", "c", "d", "e", "f", "g", "h", "i", "j", "k", "l", "m",
      "n", "o", "p", "q", "r", "s", "t", "u", "v", "w", "x", "y", "z">>

IsUpper(c) == \E k \in 1..Len(UpperLetters) : UpperLetters[k] = c

LowerChar(c) ==
    IF IsUpper(c)
    THEN LowerLetters[CHOOSE k \in 1..Len(UpperLetters) : UpperLetters[k] = c]
    ELSE c

\* strings.ToLower
ToLower(s) == IF s = <<>> THEN <<>> ELSE [k \in 1..Len(s) |-> LowerChar(s[k])]

\* strings.HasPrefix
HasPrefix(s, p) == Len(s) >= Len(p) /\ SubSeq(s, 1, Len(p)) = p

\* strings.TrimPrefix
TrimPrefix(s, p) == IF HasPrefix(s, p) THEN SubSeq(s, Len(p) + 1, Len(s)) ELSE s

\* strings.Index: position of the first occurrence of sep in s, 0 when absent.
Index(s, sep) ==
    LET At(k) == SubSeq(s, k, k + Len(sep) - 1) = sep
        Hits == {k \in 1..Len(s) : k + Len(sep) - 1 <= Len(s) /\ At(k)}
    IN IF Hits = {} THEN 0 ELSE CHOOSE k \in Hits : \A m \in Hits : k <= m

\* strings.SplitN(s, sep, 2): at most two parts, cut at the first separator.
SplitN2(s, sep) ==
    LET k == Index(s, sep)
    IN IF k = 0 THEN <<s>>
       ELSE <<SubSeq(s, 1, k - 1), SubSeq(s, k + Len(sep), Len(s))>>

\* strings.TrimSpace
TrimSpace(s) ==
    LET Solid == {k \in 1..Len(s) : ~IsSpace(s[k])}
    IN IF Solid = {} THEN <<>>
       ELSE SubSeq(s, CHOOSE a \in Solid : \A m \in Solid : a <= m,
                      CHOOSE b \in Solid : \A m \in Solid : b >= m)

\* strings.Fields: the maximal runs of non-space characters, in order.
RECURSIVE Fields(_)
Fields(s) ==
    LET Solid == {k \in 1..Len(s) : ~IsSpace(s[k])}
    IN IF Solid = {} THEN <<>>
       ELSE LET a == CHOOSE k \in Solid : \A m \in Solid : k <= m
                Ends == {k \in a..Len(s) : k = Len(s) \/ IsSpace(s[k + 1])}
                b == CHOOSE k \in Ends : \A m \in Ends : k <= m
            IN <<SubSeq(s, a, b)>> \o Fields(SubSeq(s, b + 1, Len(s)))

\* fmt.Sprintf("%s:%s", a, b)
SprintfColon(a, b) == a \o <<":">> \o b

(***************************************************************************)
(* Go maps: functions on their key sets.                                   *)
(***************************************************************************)
EmptyMap == [k \in {} |-> <<>>]

MapPut(m, key, val) ==
    [k \in (DOMAIN m) \cup {key} |-> IF k = key THEN val ELSE m[k]]

HasKey(m, key) == key \in DOMAIN m

(***************************************************************************)
(* The files the loader can meet.                                          *)
(***************************************************************************)
\* pciIdsPaths and the value of --collector.pcidevice.idsfile when it is set.
pciIdsPaths == <<"/usr/share/misc/pci.ids", "/usr/share/hwdata/pci.ids">>

CustomFile == "/etc/pci.ids"

AllPaths == {pciIdsPaths[k] : k \in 1..Len(pciIdsPaths)} \cup {CustomFile}

LClass == <<"C", " ", "0", "c", " ", " ", "S">>

LSubclass == <<"\t", "0", "3", " ", " ", "U">>

LProgIf == <<"\t", "\t", "3", "0", " ", " ", "P">>

LVendor == <<"1", "a", " ", " ", "V">>

LVendorUpper == <<"1", "A", " ", " ", "W">>

LVendor2 == <<"2", "d", " ", " ", "Q">>

LDevice == <<"\t", "2", "b", " ", " ", "D">>

LSubsys == <<"\t", "\t", "1", "a", " ", "3", "c", " ", " ", "B">>

LComment == <<"#">>

LinePool ==
    {LClass, LSubclass, LProgIf, LVendor, LVendorUpper, LVendor2, LDevice,
     LSubsys, LComment}

\* Every file of at most n lines of the pool.
FilesOf(pool, n) == UNION {[1..k -> pool] : k \in 0..n}

\* Three short files with different contents, to tell the paths apart.
SmallFiles ==
    {<<LVendor, LDevice>>, <<LClass, LSubclass>>, <<LVendor2>>}

Readable(content) == [ok |-> TRUE, lines |-> content]

Unreadable == [ok |-> FALSE, lines |-> <<>>]

(***************************************************************************)
(* State.                                                                  *)
(***************************************************************************)
VARIABLES
    customPath,        \* load's customPath argument ("" when not given)
    fs,                \* the file system: path -> Readable(lines) or Unreadable
    pc,                \* where load is: "start", "loop", "scan", "done"
                       \* ("idle" before newPCIIDProvider is called)
    i,                 \* index of the next default path to try
    file,              \* the path behind load's file handle ("" for nil)
    err,               \* load's err variable: TRUE when err != nil
    pos,               \* number of lines the scanner has returned
    opened,            \* every path handed to os.Open, in order
    currentVendor, currentDevice, currentBaseClass, currentSubclass,
    inClassContext,
    pciVendors, pciDevices, pciSubsystems, pciClasses, pciSubclasses,
    pciProgIfs,
    op, args, ret,     \* the last accessor call and its result
    readers,           \* the lookups of the concurrent scrapes, per reader
    built,             \* the tables of the providers constructed before
    sysfsOpens,        \* whether sysfs.NewFS(*sysPath) succeeds
    sysDevices,        \* what c.fs.PciDevices() returns: [err, devices]
    pciNames,          \* the flag --collector.pcidevice.names
    cpc,               \* NewPcideviceCollector: "new", "loading", "ready", "failed"
    pciProvider,       \* c.pciProvider != nil
    labelNames,        \* the label names of c.infoDesc
    emitted,           \* the label values of the info metrics of the last Update
    updateRet,         \* what the last Update returned ("none" before any)
    gpu                \* the last gpuCollector.Update: the build it ran in, what
                       \* os.ReadDir gave, the metrics sent on ch, the result

env == <<customPath, fs>>

ctl == <<pc, i, file, err, pos, opened>>

parser ==
    <<currentVendor, currentDevice, currentBaseClass, currentSubclass,
      inClassContext>>

tables ==
    <<pciVendors, pciDevices, pciSubsystems, pciClasses, pciSubclasses,
      pciProgIfs>>

call == <<op, args, ret>>

coll ==
    <<sysfsOpens, sysDevices, pciNames, cpc, pciProvider, labelNames, emitted,
      updateRet>>

aux == <<readers, built, coll, gpu>>

vars == <<env, ctl, parser, tables, call, aux>>

(***************************************************************************)
(* newPCIIDProvider: six empty maps, then load.                            *)
(***************************************************************************)
newPCIIDProvider ==
    /\ pc = "start"
    /\ i = 1
    /\ file = ""
    /\ err = FALSE
    /\ pos = 0
    /\ opened = <<>>
    /\ currentVendor = <<>>
    /\ currentDevice = <<>>
    /\ currentBaseClass = <<>>
    /\ currentSubclass = <<>>
    /\ inClassContext = FALSE
    /\ pciVendors = EmptyMap
    /\ pciDevices = EmptyMap
    /\ pciSubsystems = EmptyMap
    /\ pciClasses = EmptyMap
    /\ pciSubclasses = EmptyMap
    /\ pciProgIfs = EmptyMap
    /\ op = "none"
    /\ args = <<>>
    /\ ret = <<>>

\* The scrapes that can run Update at the same time.
Readers == {"r1", "r2"}

IdleReader == [st |-> "idle", op |-> "none", args |-> <<>>, ret |-> <<>>]

\* pcideviceLabelNames and the ten labels appended to it (lines 167-169).
BaseLabels ==
    <<"segment", "bus", "device", "function">> \o
    <<"parent_segment", "parent_bus", "parent_device", "parent_function",
      "class_id", "vendor_id", "device_id", "subsystem_vendor_id",
      "subsystem_device_id", "revision">>

\* The five labels appended when name resolution is enabled (line 174).
NameLabels ==
    <<"vendor_name", "device_name", "subsystem_vendor_name",
      "subsystem_device_name", "class_name">>

\* NewGPUCollector: a collector that has not been scraped yet.
NewGPUCollector ==
    [build |-> "none", dir |-> [ok |-> TRUE, entries |-> <<>>], sent |-> <<>>,
     ret |-> "none"]

\* NewPcideviceCollector at its call of newPCIIDProvider: sysfs is open, names
\* are enabled, nothing has been constructed or scraped yet.
AtProviderCall ==
    /\ readers = [r \in Readers |-> IdleReader]
    /\ built = <<>>
    /\ sysfsOpens = TRUE
    /\ sysDevices = [err |-> "none", devices |-> <<>>]
    /\ pciNames = TRUE
    /\ cpc = "loading"
    /\ pciProvider = FALSE
    /\ labelNames = BaseLabels
    /\ emitted = <<>>
    /\ updateRet = "none"
    /\ gpu = NewGPUCollector

\* One default file of any content up to MaxLines lines.
InitParse ==
    /\ customPath = ""
    /\ \E content \in FilesOf(LinePool, MaxLines) :
          fs = [p \in AllPaths |->
                   IF p = pciIdsPaths[1] THEN Readable(content) ELSE Unreadable]
    /\ newPCIIDProvider
    /\ AtProviderCall

\* Every combination of override and of readable and unreadable paths.
InitOpen ==
    /\ customPath \in {"", CustomFile}
    /\ fs \in [AllPaths -> {Readable(c) : c \in SmallFiles} \cup {Unreadable}]
    /\ newPCIIDProvider
    /\ AtProviderCall

Init == InitParse \/ InitOpen

(***************************************************************************)
(* load, lines 52-74: which file is opened.                                *)
(***************************************************************************)
\* os.Open
CanOpen(path) == fs[path].ok

\* Control is inside the else branch of "if customPath != \"\"".
InDefaultLoop == pc = "loop" \/ (pc = "start" /\ customPath = "")

\* A loader that falls back to the default paths when the override fails.
OpenCustomFail_FallsBack ==
    /\ pc = "start"
    /\ customPath # ""
    /\ ~CanOpen(customPath)
    /\ opened' = Append(opened, customPath)
    /\ err' = TRUE
    /\ pc' = "loop"
    /\ UNCHANGED <<env, aux, i, file, pos, parser, tables, call>>

\* customPath != "" and os.Open(customPath) fails: log and return.
OpenCustomFail ==
    /\ pc = "start"
    /\ customPath # ""
    /\ ~CanOpen(customPath)
    /\ opened' = Append(opened, customPath)
    /\ err' = TRUE
    /\ pc' = "done"
    /\ UNCHANGED <<env, aux, i, file, pos, parser, tables, call>>

\* customPath != "" and os.Open(customPath) succeeds.
OpenCustomOk ==
    /\ pc = "start"
    /\ customPath # ""
    /\ CanOpen(customPath)
    /\ opened' = Append(opened, customPath)
    /\ err' = FALSE
    /\ file' = customPath
    /\ pc' = "scan"
    /\ UNCHANGED <<env, aux, i, pos, parser, tables, call>>

\* One iteration of "for _, path := range paths" that fails to open its path.
TryDefaultFail ==
    /\ InDefaultLoop
    /\ i <= Len(pciIdsPaths)
    /\ ~CanOpen(pciIdsPaths[i])
    /\ opened' = Append(opened, pciIdsPaths[i])
    /\ err' = TRUE
    /\ file' = ""
    /\ i' = i + 1
    /\ pc' = "loop"
    /\ UNCHANGED <<env, aux, pos, parser, tables, call>>

\* A loop that opens its path and goes on to the next one (no break).
TryDefaultOk_NoBreak ==
    /\ InDefaultLoop
    /\ i <= Len(pciIdsPaths)
    /\ CanOpen(pciIdsPaths[i])
    /\ opened' = Append(opened, pciIdsPaths[i])
    /\ err' = FALSE
    /\ file' = pciIdsPaths[i]
    /\ i' = i + 1
    /\ pc' = "loop"
    /\ UNCHANGED <<env, aux, pos, parser, tables, call>>

\* The iteration that opens its path: break.
TryDefaultOk ==
    /\ InDefaultLoop
    /\ i <= Len(pciIdsPaths)
    /\ CanOpen(pciIdsPaths[i])
    /\ opened' = Append(opened, pciIdsPaths[i])
    /\ err' = FALSE
    /\ file' = pciIdsPaths[i]
    /\ pc' = "scan"
    /\ UNCHANGED <<env, aux, i, pos, parser, tables, call>>

\* The range is exhausted: "if err != nil { return }".
LoopExhausted ==
    /\ InDefaultLoop
    /\ i > Len(pciIdsPaths)
    /\ pc' = IF err THEN "done" ELSE "scan"
    /\ UNCHANGED <<env, aux, i, file, err, pos, opened, parser, tables, call>>

(***************************************************************************)
(* load, lines 80-173: one scanned line.                                   *)
(***************************************************************************)
\* Lines 87-97: "C " lines.
ClassLine(line) ==
    LET parts == SplitN2(line, Sep)
    IN IF Len(parts) >= 2
       THEN LET classID == TrimSpace(SubSeq(parts[1], 2, Len(parts[1])))
                className == TrimSpace(parts[2])
            IN /\ pciClasses' = MapPut(pciClasses, classID, className)
               /\ currentBaseClass' = classID
               /\ inClassContext' = TRUE
               /\ UNCHANGED <<currentVendor, currentDevice, currentSubclass,
                              pciVendors, pciDevices, pciSubsystems,
                              pciSubclasses, pciProgIfs>>
       ELSE UNCHANGED <<parser, tables>>

\* Lines 100-112: one TAB inside class context.
SubclassLine(line) ==
    LET rest == TrimPrefix(line, <<"\t">>)
        parts == SplitN2(rest, Sep)
    IN IF Len(parts) >= 2 /\ currentBaseClass # <<>>
       THEN LET subclassID == TrimSpace(parts[1])
                subclassName == TrimSpace(parts[2])
                fullClassID == currentBaseClass \o subclassID
            IN /\ pciSubclasses' = MapPut(pciSubclasses, fullClassID, subclassName)
               /\ currentSubclass' = fullClassID
               /\ UNCHANGED <<currentVendor, currentDevice, currentBaseClass,
                              inClassContext, pciVendors, pciDevices,
                              pciSubsystems, pciClasses, pciProgIfs>>
       ELSE UNCHANGED <<parser, tables>>

\* A programming-interface rule that appends the code to the class code.
ProgIfLine_KeyedByClass(line) ==
    LET rest == TrimPrefix(line, TabTab)
        parts == SplitN2(rest, Sep)
    IN IF Len(parts) >= 2 /\ currentSubclass # <<>>
       THEN LET progIfID == TrimSpace(parts[1])
                progIfName == TrimSpace(parts[2])
                fullClassID == currentBaseClass \o progIfID
            IN /\ pciProgIfs' = MapPut(pciProgIfs, fullClassID, progIfName)
               /\ UNCHANGED <<parser, pciVendors, pciDevices, pciSubsystems,
                              pciClasses, pciSubclasses>>
       ELSE UNCHANGED <<parser, tables>>

\* Lines 115-126: two TABs inside class context.
ProgIfLine(line) ==
    LET rest == TrimPrefix(line, TabTab)
        parts == SplitN2(rest, Sep)
    IN IF Len(parts) >= 2 /\ currentSubclass # <<>>
       THEN LET progIfID == TrimSpace(parts[1])
                progIfName == TrimSpace(parts[2])
                fullClassID == currentSubclass \o progIfID
            IN /\ pciProgIfs' = MapPut(pciProgIfs, fullClassID, progIfName)
               /\ UNCHANGED <<parser, pciVendors, pciDevices, pciSubsystems,
                              pciClasses, pciSubclasses>>
       ELSE UNCHANGED <<parser, tables>>

\* A vendor rule that leaves class context and clears the current device
\* before it looks for the separator.
VendorLine_ResetsBeforeSplit(line) ==
    LET parts == SplitN2(line, Sep)
    IN /\ currentDevice' = <<>>
       /\ inClassContext' = FALSE
       /\ UNCHANGED <<currentBaseClass, currentSubclass, pciDevices,
                      pciSubsystems, pciClasses, pciSubclasses, pciProgIfs>>
       /\ IF Len(parts) >= 2
          THEN /\ currentVendor' = TrimSpace(parts[1])
               /\ pciVendors' = MapPut(pciVendors, TrimSpace(parts[1]), TrimSpace(parts[2]))
          ELSE UNCHANGED <<currentVendor, pciVendors>>

\* A vendor rule that starts the vendor's device sub-table afresh.
VendorLine_ClearsDevices(line) ==
    LET parts == SplitN2(line, Sep)
    IN IF Len(parts) >= 2
       THEN /\ currentVendor' = TrimSpace(parts[1])
            /\ pciVendors' = MapPut(pciVendors, TrimSpace(parts[1]), TrimSpace(parts[2]))
            /\ pciDevices' = MapPut(pciDevices, TrimSpace(parts[1]), EmptyMap)
            /\ currentDevice' = <<>>
            /\ inClassContext' = FALSE
            /\ UNCHANGED <<currentBaseClass, currentSubclass,
                           pciSubsystems, pciClasses, pciSubclasses, pciProgIfs>>
       ELSE UNCHANGED <<parser, tables>>

\* A vendor rule that keeps the current device.
VendorLine_KeepsDevice(line) ==
    LET parts == SplitN2(line, Sep)
    IN IF Len(parts) >= 2
       THEN /\ currentVendor' = TrimSpace(parts[1])
            /\ pciVendors' = MapPut(pciVendors, TrimSpace(parts[1]), TrimSpace(parts[2]))
            /\ inClassContext' = FALSE
            /\ UNCHANGED <<currentDevice, currentBaseClass, currentSubclass,
                           pciDevices, pciSubsystems, pciClasses, pciSubclasses,
                           pciProgIfs>>
       ELSE UNCHANGED <<parser, tables>>

\* A vendor rule that stores every vendor but keeps the first one as the
\* current vendor.
VendorLine_KeepsFirstVendor(line) ==
    LET parts == SplitN2(line, Sep)
    IN IF Len(parts) >= 2
       THEN /\ currentVendor' = IF currentVendor = <<>>
                                THEN TrimSpace(parts[1]) ELSE currentVendor
            /\ pciVendors' = MapPut(pciVendors, TrimSpace(parts[1]), TrimSpace(parts[2]))
            /\ currentDevice' = <<>>
            /\ inClassContext' = FALSE
            /\ UNCHANGED <<currentBaseClass, currentSubclass, pciDevices,
                           pciSubsystems, pciClasses, pciSubclasses, pciProgIfs>>
       ELSE UNCHANGED <<parser, tables>>

\* A vendor rule that leaves the class context standing.
VendorLine_StaysInClassContext(line) ==
    LET parts == SplitN2(line, Sep)
    IN IF Len(parts) >= 2
       THEN /\ currentVendor' = TrimSpace(parts[1])
            /\ pciVendors' = MapPut(pciVendors, TrimSpace(parts[1]), TrimSpace(parts[2]))
            /\ currentDevice' = <<>>
            /\ UNCHANGED <<currentBaseClass, currentSubclass, inClassContext,
                           pciDevices, pciSubsystems, pciClasses, pciSubclasses,
                           pciProgIfs>>
       ELSE UNCHANGED <<parser, tables>>

\* Lines 129-138: no leading TAB and no "C " prefix.
VendorLine(line) ==
    LET parts == SplitN2(line, Sep)
    IN IF Len(parts) >= 2
       THEN /\ currentVendor' = TrimSpace(parts[1])
            /\ pciVendors' = MapPut(pciVendors, TrimSpace(parts[1]), TrimSpace(parts[2]))
            /\ currentDevice' = <<>>
            /\ inClassContext' = FALSE
            /\ UNCHANGED <<currentBaseClass, currentSubclass, pciDevices,
                           pciSubsystems, pciClasses, pciSubclasses, pciProgIfs>>
       ELSE UNCHANGED <<parser, tables>>

\* A device rule that does not ask for a current vendor.
DeviceLine_NoVendorGuard(line) ==
    LET rest == TrimPrefix(line, <<"\t">>)
        parts == SplitN2(rest, Sep)
    IN IF Len(parts) >= 2
       THEN LET dev == TrimSpace(parts[1])
                sub == IF HasKey(pciDevices, currentVendor)
                       THEN pciDevices[currentVendor] ELSE EmptyMap
            IN /\ currentDevice' = dev
               /\ pciDevices' = MapPut(pciDevices, currentVendor,
                                       MapPut(sub, dev, TrimSpace(parts[2])))
               /\ UNCHANGED <<currentVendor, currentBaseClass, currentSubclass,
                              inClassContext, pciVendors, pciSubsystems,
                              pciClasses, pciSubclasses, pciProgIfs>>
       ELSE UNCHANGED <<parser, tables>>

\* Lines 141-152: one TAB outside class context.
DeviceLine(line) ==
    LET rest == TrimPrefix(line, <<"\t">>)
        parts == SplitN2(rest, Sep)
    IN IF Len(parts) >= 2 /\ currentVendor # <<>>
       THEN LET dev == TrimSpace(parts[1])
                sub == IF HasKey(pciDevices, currentVendor)
                       THEN pciDevices[currentVendor] ELSE EmptyMap
            IN /\ currentDevice' = dev
               /\ pciDevices' = MapPut(pciDevices, currentVendor,
                                       MapPut(sub, dev, TrimSpace(parts[2])))
               /\ UNCHANGED <<currentVendor, currentBaseClass, currentSubclass,
                              inClassContext, pciVendors, pciSubsystems,
                              pciClasses, pciSubclasses, pciProgIfs>>
       ELSE UNCHANGED <<parser, tables>>

\* Lines 155-172: whatever is left and starts with two TABs.
SubsystemLine(line) ==
    LET rest == TrimPrefix(line, TabTab)
        parts == SplitN2(rest, Sep)
    IN IF Len(parts) >= 2 /\ currentVendor # <<>> /\ currentDevice # <<>>
       THEN LET subsysID == TrimSpace(parts[1])
                subsysName == TrimSpace(parts[2])
                key == SprintfColon(currentVendor, currentDevice)
                sub == IF HasKey(pciSubsystems, key)
                       THEN pciSubsystems[key] ELSE EmptyMap
                subsysParts == Fields(subsysID)
            IN /\ pciSubsystems' =
                     IF Len(subsysParts) = 2
                     THEN MapPut(pciSubsystems, key,
                                 MapPut(sub, SprintfColon(subsysParts[1], subsysParts[2]),
                                        subsysName))
                     ELSE MapPut(pciSubsystems, key, sub)
               /\ UNCHANGED <<parser, pciVendors, pciDevices, pciClasses,
                              pciSubclasses, pciProgIfs>>
       ELSE UNCHANGED <<parser, tables>>

\* The body of "for scanner.Scan()": the first rule that fits takes the line.
ParseLine(line) ==
    IF line = <<>> \/ HasPrefix(line, <<"#">>)
    THEN UNCHANGED <<parser, tables>>
    ELSE IF HasPrefix(line, <<"C", " ">>)
    THEN ClassLine(line)
    ELSE IF HasPrefix(line, <<"\t">>) /\ ~HasPrefix(line, TabTab) /\ inClassContext
    THEN SubclassLine(line)
    ELSE IF HasPrefix(line, TabTab) /\ ~HasPrefix(line, TabTabTab) /\ inClassContext
    THEN ProgIfLine(line)
    ELSE IF ~HasPrefix(line, <<"\t">>) /\ ~HasPrefix(line, <<"C", " ">>)
    THEN VendorLine(line)
    ELSE IF HasPrefix(line, <<"\t">>) /\ ~HasPrefix(line, TabTab)
    THEN DeviceLine(line)
    ELSE IF HasPrefix(line, TabTab)
    THEN SubsystemLine(line)
    ELSE UNCHANGED <<parser, tables>>

\* What the scanner reads: the opened file, or nothing behind a nil handle.
Content == IF file = "" THEN <<>> ELSE fs[file].lines

\* scanner.Scan() returns a line and the loop body runs on it.
ScanLine ==
    /\ pc = "scan"
    /\ pos < Len(Content)
    /\ ParseLine(Content[pos + 1])
    /\ pos' = pos + 1
    /\ UNCHANGED <<env, aux, pc, i, file, err, opened, call>>

\* scanner.Scan() returns false: the debug summary, and load returns.
ScanEnd ==
    /\ pc = "scan"
    /\ pos = Len(Content)
    /\ pc' = "done"
    /\ UNCHANGED <<env, aux, i, file, err, pos, opened, parser, tables, call>>

(***************************************************************************)
(* The accessors, lines 195-260.                                           *)
(***************************************************************************)
\* strings.ToLower(strings.TrimPrefix(id, "0x"))
Normalize(id) == ToLower(TrimPrefix(id, Str0x))

\* An accessor that returns its argument untouched on a miss.
getVendorName_MissReturnsArgument(vendorID) ==
    LET v == Normalize(vendorID)
    IN IF HasKey(pciVendors, v) THEN pciVendors[v] ELSE vendorID

\* An accessor that marks a miss with a label, as getClassName does.
getVendorName_MissReturnsLabel(vendorID) ==
    LET v == Normalize(vendorID)
    IN IF HasKey(pciVendors, v)
       THEN pciVendors[v]
       ELSE <<"U", "n", "k", "n", "o", "w", "n", " ", "(">> \o v \o <<")">>

getVendorName(vendorID) ==
    LET v == Normalize(vendorID)
    IN IF HasKey(pciVendors, v) THEN pciVendors[v] ELSE v

\* An accessor that falls back to the vendor ID.
getDeviceName_MissReturnsVendor(vendorID, deviceID) ==
    LET v == Normalize(vendorID)
        d == Normalize(deviceID)
    IN IF HasKey(pciDevices, v) /\ HasKey(pciDevices[v], d)
       THEN pciDevices[v][d]
       ELSE v

getDeviceName(vendorID, deviceID) ==
    LET v == Normalize(vendorID)
        d == Normalize(deviceID)
    IN IF HasKey(pciDevices, v) /\ HasKey(pciDevices[v], d)
       THEN pciDevices[v][d]
       ELSE d

getSubsystemName(vendorID, deviceID, subsysVendorID, subsysDeviceID) ==
    LET v == Normalize(vendorID)
        d == Normalize(deviceID)
        sv == Normalize(subsysVendorID)
        sd == Normalize(subsysDeviceID)
        key == SprintfColon(v, d)
        subsysKey == SprintfColon(sv, sd)
    IN IF HasKey(pciSubsystems, key) /\ HasKey(pciSubsystems[key], subsysKey)
       THEN pciSubsystems[key][subsysKey]
       ELSE sd

UnknownClassOpen ==
    <<"U", "n", "k", "n", "o", "w", "n", " ", "c", "l", "a", "s", "s", " ", "(">>

\* An accessor that tries the base class first.
getClassName_ClassFirst(classID) ==
    LET c == Normalize(classID)
        progIf == SubSeq(c, 1, 6)
        subclass == SubSeq(c, 1, 4)
        baseClass == SubSeq(c, 1, 2)
    IN IF Len(c) >= 2 /\ HasKey(pciClasses, baseClass) THEN pciClasses[baseClass]
       ELSE IF Len(c) >= 4 /\ HasKey(pciSubclasses, subclass) THEN pciSubclasses[subclass]
       ELSE IF Len(c) >= 6 /\ HasKey(pciProgIfs, progIf) THEN pciProgIfs[progIf]
       ELSE UnknownClassOpen \o c \o <<")">>

\* An accessor that returns the bare code on a miss, as the other three do.
getClassName_MissReturnsCode(classID) ==
    LET c == Normalize(classID)
        progIf == SubSeq(c, 1, 6)
        subclass == SubSeq(c, 1, 4)
        baseClass == SubSeq(c, 1, 2)
    IN IF Len(c) >= 6 /\ HasKey(pciProgIfs, progIf) THEN pciProgIfs[progIf]
       ELSE IF Len(c) >= 4 /\ HasKey(pciSubclasses, subclass) THEN pciSubclasses[subclass]
       ELSE IF Len(c) >= 2 /\ HasKey(pciClasses, baseClass) THEN pciClasses[baseClass]
       ELSE c

\* What a call returns when the Go runtime panics inside it: no string.
Panic == <<"panic">>

\* An accessor that slices without the length guards: classID[:6] on a code
\* shorter than six characters is a slice-bounds panic.
getClassName_NoLengthCheck(classID) ==
    LET c == Normalize(classID)
        progIf == SubSeq(c, 1, 6)
        subclass == SubSeq(c, 1, 4)
        baseClass == SubSeq(c, 1, 2)
    IN IF Len(c) < 6 THEN Panic
       ELSE IF HasKey(pciProgIfs, progIf) THEN pciProgIfs[progIf]
       ELSE IF HasKey(pciSubclasses, subclass) THEN pciSubclasses[subclass]
       ELSE IF HasKey(pciClasses, baseClass) THEN pciClasses[baseClass]
       ELSE UnknownClassOpen \o c \o <<")">>

getClassName(classID) ==
    LET c == Normalize(classID)
        progIf == SubSeq(c, 1, 6)
        subclass == SubSeq(c, 1, 4)
        baseClass == SubSeq(c, 1, 2)
    IN IF Len(c) >= 6 /\ HasKey(pciProgIfs, progIf) THEN pciProgIfs[progIf]
       ELSE IF Len(c) >= 4 /\ HasKey(pciSubclasses, subclass) THEN pciSubclasses[subclass]
       ELSE IF Len(c) >= 2 /\ HasKey(pciClasses, baseClass) THEN pciClasses[baseClass]
       ELSE UnknownClassOpen \o c \o <<")">>

(***************************************************************************)
(* The identifiers the callers ask about.                                  *)
(***************************************************************************)
VendorArgs ==
    {<<"1", "a">>, <<"1", "A">>, <<"0", "x", "1", "A">>, <<"0", "X", "1", "a">>,
     <<"0", "x", "0", "x", "1", "a">>, <<"2", "d">>}

OwnerVendorArgs == {<<"0", "x", "1", "a">>, <<"2", "d">>}

DeviceArgs == {<<"2", "b">>, <<"0", "x", "2", "B">>, <<"0", "X", "2", "b">>}

SubsysVendorArgs == {<<"0", "x", "1", "a">>}

SubsysDeviceArgs == {<<"3", "c">>, <<"0", "x", "3", "C">>, <<"0", "X", "3", "c">>}

ClassArgs ==
    {<<"0", "c", "0", "3", "3", "0">>,
     <<"0", "x", "0", "C", "0", "3", "3", "0">>,
     <<"0", "c", "0", "3", "f", "f">>,
     <<"0", "c", "0", "3">>,
     <<"0", "c", "f", "f", "3", "0">>,
     <<"0", "x", "0", "c">>,
     <<"0", "X", "0", "c">>,
     <<"F", "F">>,
     <<"0">>}

\* Accessor calls: only a constructed provider (load has returned) is queried.
CallVendorName ==
    /\ pc = "done"
    /\ \E q \in VendorArgs :
          /\ op' = "getVendorName"
          /\ args' = <<q>>
          /\ ret' = getVendorName(q)
    /\ UNCHANGED <<env, aux, ctl, parser, tables>>

\* A lookup that reads the outer map the way an inserting index would: a
\* missed vendor gets an empty sub-table.
CallDeviceName_CreatesSubTable ==
    /\ pc = "done"
    /\ \E v \in OwnerVendorArgs, d \in DeviceArgs :
          /\ op' = "getDeviceName"
          /\ args' = <<v, d>>
          /\ ret' = getDeviceName(v, d)
          /\ pciDevices' = IF HasKey(pciDevices, Normalize(v))
                           THEN pciDevices
                           ELSE MapPut(pciDevices, Normalize(v), EmptyMap)
    /\ UNCHANGED <<env, aux, ctl, parser, pciVendors, pciSubsystems, pciClasses,
                   pciSubclasses, pciProgIfs>>

CallDeviceName ==
    /\ pc = "done"
    /\ \E v \in OwnerVendorArgs, d \in DeviceArgs :
          /\ op' = "getDeviceName"
          /\ args' = <<v, d>>
          /\ ret' = getDeviceName(v, d)
    /\ UNCHANGED <<env, aux, ctl, parser, tables>>

CallSubsystemName ==
    /\ pc = "done"
    /\ \E v \in OwnerVendorArgs, d \in {<<"2", "b">>},
          sv \in SubsysVendorArgs, sd \in SubsysDeviceArgs :
          /\ op' = "getSubsystemName"
          /\ args' = <<v, d, sv, sd>>
          /\ ret' = getSubsystemName(v, d, sv, sd)
    /\ UNCHANGED <<env, aux, ctl, parser, tables>>

CallClassName ==
    /\ pc = "done"
    /\ \E c \in ClassArgs :
          /\ op' = "getClassName"
          /\ args' = <<c>>
          /\ ret' = getClassName(c)
    /\ UNCHANGED <<env, aux, ctl, parser, tables>>

Next ==
    \/ OpenCustomFail
    \/ OpenCustomOk
    \/ TryDefaultFail
    \/ TryDefaultOk
    \/ LoopExhausted
    \/ ScanLine
    \/ ScanEnd
    \/ CallVendorName
    \/ CallDeviceName
    \/ CallSubsystemName
    \/ CallClassName

Spec == Init /\ [][Next]_vars

(***************************************************************************)
(* One accessor call with given arguments.                                 *)
(***************************************************************************)
DoVendorName(q) ==
    /\ pc = "done"
    /\ op' = "getVendorName"
    /\ args' = <<q>>
    /\ ret' = getVendorName(q)
    /\ UNCHANGED <<env, aux, ctl, parser, tables>>

DoDeviceName(v, d) ==
    /\ pc = "done"
    /\ op' = "getDeviceName"
    /\ args' = <<v, d>>
    /\ ret' = getDeviceName(v, d)
    /\ UNCHANGED <<env, aux, ctl, parser, tables>>

DoSubsystemName(v, d, sv, sd) ==
    /\ pc = "done"
    /\ op' = "getSubsystemName"
    /\ args' = <<v, d, sv, sd>>
    /\ ret' = getSubsystemName(v, d, sv, sd)
    /\ UNCHANGED <<env, aux, ctl, parser, tables>>

DoClassName(c) ==
    /\ pc = "done"
    /\ op' = "getClassName"
    /\ args' = <<c>>
    /\ ret' = getClassName(c)
    /\ UNCHANGED <<env, aux, ctl, parser, tables>>

\* One default file, the first path, of any content up to MaxLines lines of
\* the pool.
InitFiles(pool) ==
    /\ customPath = ""
    /\ \E content \in FilesOf(pool, MaxLines) :
          fs = [p \in AllPaths |->
                   IF p = pciIdsPaths[1] THEN Readable(content) ELSE Unreadable]
    /\ newPCIIDProvider
    /\ AtProviderCall

\* load on a file that the first default path opens.
LoadFirstDefault == TryDefaultOk \/ ScanLine \/ ScanEnd

(***************************************************************************)
(* Degenerate identifiers: the empty string, a bare "0x", class codes of   *)
(* fewer than 2, 4 or 6 characters, and a file whose vendor ID is empty.   *)
(***************************************************************************)
LVendorNoId == <<" ", " ", "N">>

EdgePool == {LClass, LSubclass, LProgIf, LVendor, LDevice, LSubsys, LVendorNoId}

EdgeIdArgs == {<<>>, Str0x, <<"1", "a">>}

EdgeDeviceArgs == {<<>>, Str0x, <<"2", "b">>}

EdgeSubsysDeviceArgs == {<<>>, Str0x, <<"3", "c">>}

EdgeClassArgs ==
    {<<>>,
     Str0x,
     <<"0">>,
     <<"0", "c", "0">>,
     <<"0", "c", "0", "3", "3">>,
     <<"0", "x", "0", "c", "0", "3", "3", "0">>}

CallVendorNameEdge == \E q \in EdgeIdArgs : DoVendorName(q)

CallDeviceNameEdge == \E v \in EdgeIdArgs, d \in EdgeDeviceArgs : DoDeviceName(v, d)

CallSubsystemNameEdge ==
    \E v \in {<<>>, <<"1", "a">>}, d \in {<<>>, <<"2", "b">>},
       sv \in {<<"1", "a">>}, sd \in EdgeSubsysDeviceArgs :
        DoSubsystemName(v, d, sv, sd)

CallClassNameEdge == \E c \in EdgeClassArgs : DoClassName(c)

InitEdge == InitFiles(EdgePool)

NextEdge ==
    \/ LoadFirstDefault
    \/ CallVendorNameEdge
    \/ CallDeviceNameEdge
    \/ CallSubsystemNameEdge
    \/ CallClassNameEdge

SpecEdge == InitEdge /\ [][NextEdge]_vars

(***************************************************************************)
(* Concurrent scrapes: each reader runs the accessor calls of Update        *)
(* (pcidevice_linux.go, lines 220-228) on the one provider, with no lock.  *)
(* A lookup takes two steps, so that the lookups of two readers overlap.   *)
(***************************************************************************)
CorePool == {LClass, LSubclass, LVendor, LDevice, LSubsys}

ReaderLookups ==
    {<<"getVendorName", <<(<<"0", "x", "1", "a">>)>>>>,
     <<"getDeviceName", <<(<<"0", "x", "1", "a">>), <<"0", "x", "2", "b">>>>>>,
     <<"getSubsystemName",
       <<(<<"0", "x", "1", "a">>), <<"0", "x", "2", "b">>,
         <<"0", "x", "1", "a">>, <<"0", "x", "3", "c">>>>>>,
     <<"getClassName", <<(<<"0", "x", "0", "c", "0", "3", "0", "0">>)>>>>}

\* The accessor o applied to the arguments a, on the tables as they are now.
Answer(o, a) ==
    CASE o = "getVendorName" -> getVendorName(a[1])
      [] o = "getDeviceName" -> getDeviceName(a[1], a[2])
      [] o = "getSubsystemName" -> getSubsystemName(a[1], a[2], a[3], a[4])
      [] o = "getClassName" -> getClassName(a[1])

\* A provider handed to its caller while load is still scanning.
Published_BeforeLoad == pc \in {"scan", "done"}

\* The provider is in the caller's hands: newPCIIDProvider returns p only
\* after p.load has returned.
Published == pc = "done"

\* Reader r enters an accessor.
BeginLookup(r) ==
    /\ Published
    /\ readers[r].st \in {"idle", "returned"}
    /\ \E l \in ReaderLookups :
          readers' = [readers EXCEPT
                         ![r] = [st |-> "running", op |-> l[1], args |-> l[2],
                                 ret |-> <<>>]]
    /\ UNCHANGED <<env, ctl, parser, tables, call, built, coll, gpu>>

\* Reader r probes the maps and returns.
FinishLookup(r) ==
    /\ readers[r].st = "running"
    /\ readers' = [readers EXCEPT
                      ![r].st = "returned",
                      ![r].ret = Answer(readers[r].op, readers[r].args)]
    /\ UNCHANGED <<env, ctl, parser, tables, call, built, coll, gpu>>

ReaderStep == \E r \in Readers : BeginLookup(r) \/ FinishLookup(r)

InitReaders == InitFiles(CorePool)

NextReaders == LoadFirstDefault \/ ReaderStep

SpecReaders == InitReaders /\ [][NextReaders]_vars

(***************************************************************************)
(* Several providers, constructed one after the other from the same file. *)
(***************************************************************************)
\* The number of providers constructed.
MaxInstances == 2

\* A construction whose parser state lives on between two loads (package
\* variables in place of load's locals).
ConstructAgain_KeepsParserState ==
    /\ pc = "done"
    /\ Len(built) < MaxInstances - 1
    /\ built' = Append(built, tables)
    /\ pc' = "start"
    /\ i' = 1
    /\ file' = ""
    /\ err' = FALSE
    /\ pos' = 0
    /\ opened' = <<>>
    /\ pciVendors' = EmptyMap
    /\ pciDevices' = EmptyMap
    /\ pciSubsystems' = EmptyMap
    /\ pciClasses' = EmptyMap
    /\ pciSubclasses' = EmptyMap
    /\ pciProgIfs' = EmptyMap
    /\ UNCHANGED <<env, parser, call, readers, coll, gpu>>

\* newPCIIDProvider is called once more: the finished provider is kept, the
\* new one gets six maps of its own and load starts with its own locals.
ConstructAgain ==
    /\ pc = "done"
    /\ Len(built) < MaxInstances - 1
    /\ built' = Append(built, tables)
    /\ pc' = "start"
    /\ i' = 1
    /\ file' = ""
    /\ err' = FALSE
    /\ pos' = 0
    /\ opened' = <<>>
    /\ currentVendor' = <<>>
    /\ currentDevice' = <<>>
    /\ currentBaseClass' = <<>>
    /\ currentSubclass' = <<>>
    /\ inClassContext' = FALSE
    /\ pciVendors' = EmptyMap
    /\ pciDevices' = EmptyMap
    /\ pciSubsystems' = EmptyMap
    /\ pciClasses' = EmptyMap
    /\ pciSubclasses' = EmptyMap
    /\ pciProgIfs' = EmptyMap
    /\ UNCHANGED <<env, call, readers, coll, gpu>>

InitInstances == InitFiles(CorePool)

NextInstances == LoadFirstDefault \/ ConstructAgain

SpecInstances == InitInstances /\ [][NextInstances]_vars

(***************************************************************************)
(* A class section followed by a vendor block, as in a real pci.ids, and   *)
(* the identifiers Update forms for an Intel I210 (class 0x0200).          *)
(***************************************************************************)
LNetworkClass ==
    <<"C", " ", "0", "2", " ", " ", "N", "e", "t", "w", "o", "r", "k", " ",
      "c", "o", "n", "t", "r", "o", "l", "l", "e", "r">>

LEthernetSubclass ==
    <<"\t", "0", "0", " ", " ", "E", "t", "h", "e", "r", "n", "e", "t", " ",
      "c", "o", "n", "t", "r", "o", "l", "l", "e", "r">>

LIntelVendor ==
    <<"8", "0", "8", "6", " ", " ", "I", "n", "t", "e", "l", " ", "C", "o",
      "r", "p", "o", "r", "a", "t", "i", "o", "n">>

LI210Device ==
    <<"\t", "1", "5", "3", "3", " ", " ", "I", "2", "1", "0", " ", "G", "i",
      "g", "a", "b", "i", "t", " ", "N", "e", "t", "w", "o", "r", "k", " ",
      "C", "o", "n", "n", "e", "c", "t", "i", "o", "n">>

RoundTripFile == <<LNetworkClass, LEthernetSubclass, LIntelVendor, LI210Device>>

RoundTripPool == {RoundTripFile[k] : k \in 1..Len(RoundTripFile)}

Q0x0200 == <<"0", "x", "0", "2", "0", "0">>

Q0x8086 == <<"0", "x", "8", "0", "8", "6">>

Q0x1533 == <<"0", "x", "1", "5", "3", "3">>

\* Every arrangement of the four lines, up to four lines long.
InitRoundTrip ==
    /\ customPath = ""
    /\ \E content \in FilesOf(RoundTripPool, Len(RoundTripFile)) :
          fs = [p \in AllPaths |->
                   IF p = pciIdsPaths[1] THEN Readable(content) ELSE Unreadable]
    /\ newPCIIDProvider
    /\ AtProviderCall

CallRoundTrip ==
    \/ DoClassName(Q0x0200)
    \/ DoVendorName(Q0x8086)
    \/ DoDeviceName(Q0x8086, Q0x1533)

NextRoundTrip == LoadFirstDefault \/ CallRoundTrip

SpecRoundTrip == InitRoundTrip /\ [][NextRoundTrip]_vars

(***************************************************************************)
(* The pcidevice collector (pcidevice_linux.go): NewPcideviceCollector and *)
(* the info metric of Update.  The other metrics of Update carry the four  *)
(* location labels only and never touch the provider.                      *)
(***************************************************************************)
HexChars ==
    <<"0", "1", "2", "3", "4", "5", "6", "7", "8", "9", "a", "b", "c", "d",
      "e", "f">>

RECURSIVE HexOf(_)
HexOf(n) ==
    IF n < Len(HexChars) THEN <<HexChars[n + 1]>>
    ELSE HexOf(n \div Len(HexChars)) \o <<HexChars[(n % Len(HexChars)) + 1]>>

\* fmt.Sprintf("0x%0<w>x", n)
SprintfHex(n, w) ==
    LET h == HexOf(n)
    IN Str0x \o [k \in 1..(IF Len(h) < w THEN w - Len(h) ELSE 0) |-> "0"] \o h

LVendor4 == <<"0", "0", "1", "a", " ", " ", "V">>

LDevice4 == <<"\t", "0", "0", "2", "b", " ", " ", "D">>

LSubsys4 ==
    <<"\t", "\t", "0", "0", "1", "a", " ", "0", "0", "3", "c", " ", " ", "B">>

\* A database with a class section and a vendor block, and a shorter one.
CollectorFiles ==
    {<<LClass, LSubclass, LProgIf, LVendor4, LDevice4, LSubsys4>>, <<LVendor4>>}

\* sysfs devices: 00:01.0 is class 0x0c0330, 001a:002b, subsystem 001a:003c,
\* below a parent; 00:02.0 is class 0x020000, 8086:1533, with no parent.
KnownDevice ==
    [Location |-> <<(<<"0">>), <<"0">>, <<"1">>, <<"0">>>>,
     ParentLocation |-> <<(<<"0">>), <<"0">>, <<"0">>, <<"0">>>>,
     Class |-> 787248, Vendor |-> 26, Device |-> 43,
     SubsystemVendor |-> 26, SubsystemDevice |-> 60, Revision |-> 1]

UnknownDevice ==
    [Location |-> <<(<<"0">>), <<"0">>, <<"2">>, <<"0">>>>,
     ParentLocation |-> <<>>,
     Class |-> 131072, Vendor |-> 32902, Device |-> 5427,
     SubsystemVendor |-> 0, SubsystemDevice |-> 0, Revision |-> 0]

\* What c.fs.PciDevices() can return.
PciDevicesResults ==
    {[err |-> "none", devices |-> <<>>],
     [err |-> "none", devices |-> <<KnownDevice>>],
     [err |-> "none", devices |-> <<KnownDevice, UnknownDevice>>],
     [err |-> "ErrNotExist", devices |-> <<>>],
     [err |-> "other", devices |-> <<>>]}

\* Before NewPcideviceCollector is called.
InitCollector ==
    /\ customPath \in {"", CustomFile}
    /\ fs \in [AllPaths -> {Readable(c) : c \in CollectorFiles} \cup {Unreadable}]
    /\ sysfsOpens \in BOOLEAN
    /\ sysDevices \in PciDevicesResults
    /\ pciNames \in BOOLEAN
    /\ cpc = "new"
    /\ pciProvider = FALSE
    /\ labelNames = <<>>
    /\ emitted = <<>>
    /\ updateRet = "none"
    /\ gpu = NewGPUCollector
    /\ readers = [r \in Readers |-> IdleReader]
    /\ built = <<>>
    /\ pc = "idle"
    /\ i = 1
    /\ file = ""
    /\ err = FALSE
    /\ pos = 0
    /\ opened = <<>>
    /\ currentVendor = <<>>
    /\ currentDevice = <<>>
    /\ currentBaseClass = <<>>
    /\ currentSubclass = <<>>
    /\ inClassContext = FALSE
    /\ pciVendors = EmptyMap
    /\ pciDevices = EmptyMap
    /\ pciSubsystems = EmptyMap
    /\ pciClasses = EmptyMap
    /\ pciSubclasses = EmptyMap
    /\ pciProgIfs = EmptyMap
    /\ op = "none"
    /\ args = <<>>
    /\ ret = <<>>

\* Lines 156-159: sysfs.NewFS fails, return nil and the error.
NewCollectorFail ==
    /\ cpc = "new"
    /\ ~sysfsOpens
    /\ cpc' = "failed"
    /\ UNCHANGED <<env, ctl, parser, tables, call, readers, built, gpu, sysfsOpens,
                   sysDevices, pciNames, pciProvider, labelNames, emitted,
                   updateRet>>

\* Lines 161-188 with names disabled: fourteen labels and no provider.
NewCollectorPlain ==
    /\ cpc = "new"
    /\ sysfsOpens
    /\ ~pciNames
    /\ labelNames' = BaseLabels
    /\ cpc' = "ready"
    /\ UNCHANGED <<env, ctl, parser, tables, call, readers, built, gpu, sysfsOpens,
                   sysDevices, pciNames, pciProvider, emitted, updateRet>>

\* Lines 161-172 with names enabled: up to the call of newPCIIDProvider.
NewCollectorNames ==
    /\ cpc = "new"
    /\ sysfsOpens
    /\ pciNames
    /\ labelNames' = BaseLabels
    /\ cpc' = "loading"
    /\ pc' = "start"
    /\ UNCHANGED <<env, i, file, err, pos, opened, parser, tables, call, readers,
                   built, gpu, sysfsOpens, sysDevices, pciNames, pciProvider, emitted,
                   updateRet>>

\* A constructor that gives up when load could open no file.
NewCollectorReturn_FailsWithoutDatabase ==
    /\ cpc = "loading"
    /\ pc = "done"
    /\ pciProvider' = (file # "")
    /\ labelNames' = labelNames \o NameLabels
    /\ cpc' = IF file = "" THEN "failed" ELSE "ready"
    /\ UNCHANGED <<env, ctl, parser, tables, call, readers, built, gpu, sysfsOpens,
                   sysDevices, pciNames, emitted, updateRet>>

\* A constructor that makes the provider and leaves the label names as
\* they are.
NewCollectorReturn_KeepsLabels ==
    /\ cpc = "loading"
    /\ pc = "done"
    /\ pciProvider' = TRUE
    /\ cpc' = "ready"
    /\ UNCHANGED <<env, ctl, parser, tables, call, readers, built, gpu, sysfsOpens,
                   sysDevices, pciNames, labelNames, emitted, updateRet>>

\* Lines 172-188: newPCIIDProvider has returned; the five name labels.
NewCollectorReturn ==
    /\ cpc = "loading"
    /\ pc = "done"
    /\ pciProvider' = TRUE
    /\ labelNames' = labelNames \o NameLabels
    /\ cpc' = "ready"
    /\ UNCHANGED <<env, ctl, parser, tables, call, readers, built, gpu, sysfsOpens,
                   sysDevices, pciNames, emitted, updateRet>>

\* Lines 201-228: the label values of the info metric of one device.
InfoValues(device) ==
    LET classID == SprintfHex(device.Class, 6)
        vendorID == SprintfHex(device.Vendor, 4)
        deviceID == SprintfHex(device.Device, 4)
        subsysVendorID == SprintfHex(device.SubsystemVendor, 4)
        subsysDeviceID == SprintfHex(device.SubsystemDevice, 4)
        values ==
            device.Location
                \o (IF device.ParentLocation # <<>>
                    THEN device.ParentLocation
                    ELSE <<(<<"*">>), <<"*">>, <<"*">>, <<"*">>>>)
                \o <<classID, vendorID, deviceID, subsysVendorID, subsysDeviceID,
                     SprintfHex(device.Revision, 2)>>
    IN IF pciNames /\ pciProvider
       THEN values \o <<getVendorName(vendorID),
                        getDeviceName(vendorID, deviceID),
                        getVendorName(subsysVendorID),
                        getSubsystemName(vendorID, deviceID, subsysVendorID,
                                         subsysDeviceID),
                        getClassName(classID)>>
       ELSE values

\* Update: PciDevices, then one info metric per device; mustNewConstMetric
\* panics on a metric whose values are not as many as the label names.
Update ==
    /\ cpc = "ready"
    /\ IF sysDevices.err = "ErrNotExist"
       THEN emitted' = <<>> /\ updateRet' = "ErrNoData"
       ELSE IF sysDevices.err # "none"
       THEN emitted' = <<>> /\ updateRet' = "error"
       ELSE LET all == [k \in 1..Len(sysDevices.devices) |->
                           InfoValues(sysDevices.devices[k])]
                Bad == {k \in 1..Len(all) : Len(all[k]) # Len(labelNames)}
            IN IF Bad = {}
               THEN emitted' = all /\ updateRet' = "nil"
               ELSE /\ emitted' =
                         SubSeq(all, 1, (CHOOSE k \in Bad : \A m \in Bad : k <= m) - 1)
                    /\ updateRet' = "panic"
    /\ UNCHANGED <<env, ctl, parser, tables, call, readers, built, gpu, sysfsOpens,
                   sysDevices, pciNames, cpc, pciProvider, labelNames>>

NextCollector ==
    \/ NewCollectorFail
    \/ NewCollectorPlain
    \/ NewCollectorNames
    \/ OpenCustomFail
    \/ OpenCustomOk
    \/ TryDefaultFail
    \/ TryDefaultOk
    \/ LoopExhausted
    \/ ScanLine
    \/ ScanEnd
    \/ NewCollectorReturn
    \/ Update

SpecCollector == InitCollector /\ [][NextCollector]_vars

(***************************************************************************)
(* Identifiers that hold the ":" of the composite key.  load takes any     *)
(* text before the separator as an identifier.                             *)
(***************************************************************************)
LVendor1 == <<"1", " ", " ", "V">>

LVendorColon == <<"1", ":", "2", " ", " ", "W">>

LDeviceColon == <<"\t", "2", ":", "3", " ", " ", "D">>

LDevice3 == <<"\t", "3", " ", " ", "E">>

ColonPool == {LVendor1, LVendorColon, LDeviceColon, LDevice3, LSubsys}

CallSubsystemNameColon ==
    \E pair \in {<<(<<"1">>), <<"2", ":", "3">>>>, <<(<<"1", ":", "2">>), <<"3">>>>} :
        DoSubsystemName(pair[1], pair[2], <<"1", "a">>, <<"3", "c">>)

InitColon == InitFiles(ColonPool)

NextColon == LoadFirstDefault \/ CallSubsystemNameColon

SpecColon == InitColon /\ [][NextColon]_vars

(***************************************************************************)
(* Longer files, for the parser state carried from line to line.           *)
(***************************************************************************)
\* Longest file (in lines) of the class-section and vendor-block files.
MaxLongLines == 4

InitLongFiles(pool) ==
    /\ customPath = ""
    /\ \E content \in FilesOf(pool, MaxLongLines) :
          fs = [p \in AllPaths |->
                   IF p = pciIdsPaths[1] THEN Readable(content) ELSE Unreadable]
    /\ newPCIIDProvider
    /\ AtProviderCall

LClass2 == <<"C", " ", "0", "d", " ", " ", "T">>

\* A class line with a single space where the separator should be.
LClassNoSep == <<"C", " ", "0", "d", " ", "T">>

ClassPool == {LClass, LClass2, LClassNoSep, LSubclass, LProgIf, LVendor}

SpecClasses == InitLongFiles(ClassPool) /\ [][LoadFirstDefault]_vars

\* A vendor line with a single space where the separator should be.
LVendorNoSep == <<"2", "d", " ", "Q">>

\* A subsystem line behind three TABs.
LSubsys3Tab == <<"\t", "\t", "\t", "1", "a", " ", "3", "d", " ", " ", "A">>

VendorPool ==
    {LVendor, LVendor2, LVendorNoSep, LVendorNoId, LDevice, LSubsys,
     LSubsys3Tab, LClass}

SpecVendors == InitLongFiles(VendorPool) /\ [][LoadFirstDefault]_vars

\* A class line whose code field is empty.
LClassNoId == <<"C", " ", " ", " ", "X">>

\* Class sections and vendor blocks whose indented lines can come too early.
ContextPool == {LClass, LClassNoId, LSubclass, LProgIf, LVendor, LSubsys}

SpecContext == InitLongFiles(ContextPool) /\ [][LoadFirstDefault]_vars

\* A one-TAB line and a two-TAB line with a single space where the
\* separator should be.
LDeviceNoSep == <<"\t", "2", "b", " ", "D">>

LSubsysNoSep == <<"\t", "\t", "1", "a", " ", "3", "c", " ", "B">>

\* Lines with and without the separator at every indentation.
NoSepPool ==
    {LClass, LSubclass, LVendor, LClassNoSep, LVendorNoSep, LDeviceNoSep,
     LSubsysNoSep}

SpecNoSep == InitLongFiles(NoSepPool) /\ [][LoadFirstDefault]_vars

\* Lookups of identifiers with an upper-case prefix, a doubled prefix, a
\* prefix before upper-case digits, and bare digits.
CallVendorNameNorm ==
    \E q \in {<<"0", "X", "1", "a">>, <<"0", "x", "0", "x", "1", "a">>,
              <<"0", "x", "2", "D">>, <<"2", "d">>, <<"1", "a">>} :
        DoVendorName(q)

CallDeviceNameNorm ==
    \E d \in {<<"0", "X", "2", "b">>, <<"0", "x", "0", "x", "2", "b">>,
              <<"0", "x", "3", "C">>, <<"2", "b">>} :
        DoDeviceName(<<"1", "a">>, d)

CallSubsystemNameNorm ==
    \E sd \in {<<"0", "X", "3", "c">>, <<"0", "x", "0", "x", "3", "c">>,
               <<"0", "x", "3", "D">>, <<"3", "c">>} :
        DoSubsystemName(<<"1", "a">>, <<"2", "b">>, <<"1", "a">>, sd)

NextNorm ==
    \/ LoadFirstDefault
    \/ CallVendorNameNorm
    \/ CallDeviceNameNorm
    \/ CallSubsystemNameNorm

SpecNorm == InitFiles(CorePool) /\ [][NextNorm]_vars

\* The vendor of LVendor once more, under another name.
LVendorAgain == <<"1", "a", " ", " ", "X">>

\* The device of LDevice once more, under another name.
LDeviceAgain == <<"\t", "2", "b", " ", " ", "F">>

\* Vendor blocks that can come back later in the file.
RepeatPool == {LVendor, LVendorAgain, LVendor2, LDevice, LDeviceAgain, LDevice3}

SpecRepeat == InitLongFiles(RepeatPool) /\ [][LoadFirstDefault]_vars

(***************************************************************************)
(* The GPU collector: gpuCollector.Update over the entries of               *)
(* /sys/bus/pci/devices.  The sources hold the collector twice: gpu_linux.go *)
(* counts the cards in one gpuCount, part_000 counts them per model and     *)
(* takes vfio-pci for a GPU driver.                                         *)
(***************************************************************************)
MaxGpuEntries == 3

\* A PCI entry: what readSysfsFile gives for its class, vendor and device
\* files, [ok, text] with the text trimmed, and the base name of the target
\* of its driver link ("" when os.Readlink fails).  The entry's name is its
\* place in the listing.  The listings os.ReadDir can give: an error, or up
\* to MaxGpuEntries entries.
GpuDirs ==
    LET Read(t) == [ok |-> TRUE, text |-> t]
        NoRead == [ok |-> FALSE, text |-> <<>>]
        Display == <<"0", "x", "0", "3", "0", "0", "0", "0">>
        Display3D == <<"0", "x", "0", "3", "0", "2", "0", "0">>
        Network == <<"0", "x", "0", "2", "0", "0", "0", "0">>
        E(c, v, drv, d) == [class |-> c, vendor |-> v, driver |-> drv, device |-> d]
        Entries ==
            {E(Read(Display), Read("0x10de"), "nvidia", Read("0x1eb8")),
             E(Read(Display3D), Read("0x10de"), "nvidia", Read("0x1e30")),
             E(Read(Display), Read("0x1002"), "amdgpu", Read("0x73bf")),
             E(Read(Network), Read("0x8086"), "i915", Read("0x1533")),
             E(Read(Display), Read("0x1a03"), "ast", Read("0x2000")),
             E(Read(Display), Read("0x15ad"), "vmwgfx", Read("0x0405")),
             E(Read(Display3D), Read("0x10de"), "vfio-pci", Read("0x1eb8")),
             E(Read(Display), Read("0x8086"), "", Read("0x9a49")),
             E(Read(Display), Read("0x10de"), "nvidia", NoRead),
             E(NoRead, Read("0x10de"), "nvidia", Read("0x1eb8")),
             E(Read(Display), NoRead, "nvidia", Read("0x1eb8"))}
    IN {[ok |-> FALSE, entries |-> <<>>]}
          \cup {[ok |-> TRUE, entries |-> es] : es \in FilesOf(Entries, MaxGpuEntries)}

\* var bmcVendors
bmcVendors == {"0x1a03", "0x102b"}

\* vendorNVIDIA, vendorAMD, vendorIntel, and the names the switch gives them.
gpuVendorName ==
    [v \in {"0x10de", "0x1002", "0x8086"} |->
        IF v = "0x10de" THEN "NVIDIA Corporation"
        ELSE IF v = "0x1002" THEN "AMD/ATI"
        ELSE "Intel Corporation"]

\* A driver test that takes any bound driver for a GPU driver.
isGPUDriverLoaded_AnyDriver(build, entry) == entry.driver # ""

\* isGPUDriverLoaded: the driver link resolves and names a valid driver.
isGPUDriverLoaded(build, entry) ==
    /\ entry.driver # ""
    /\ entry.driver \in
          {"nvidia", "nouveau", "amdgpu", "radeon", "i915", "xe"}
             \cup (IF build = "part_000" THEN {"vfio-pci"} ELSE {})

\* getProductName, with the two Tesla T4 rows of nvidiaProducts.
getProductName(build, vendorID, deviceID) ==
    IF vendorID = "0x10de" /\ deviceID \in {"0x1eb8", "0x1e30"}
    THEN (IF build = "part_000" THEN "NVIDIA Tesla T4" ELSE "Tesla T4")
    ELSE deviceID

\* The loop of Update from entry k on: the info metrics appended to
\* gpuMetrics, in the order of the listing.
RECURSIVE gpuMetrics(_, _, _)
gpuMetrics(build, entries, k) ==
    IF k > Len(entries) THEN <<>>
    ELSE LET entry == entries[k]
             vendorID == entry.vendor.text
             deviceID == entry.device.text
             skip ==
                \/ ~entry.class.ok
                \/ ~HasPrefix(entry.class.text, <<"0", "x", "0", "3">>)
                \/ ~entry.vendor.ok
                \/ vendorID \in bmcVendors
                \/ vendorID \notin DOMAIN gpuVendorName
                \/ ~isGPUDriverLoaded(build, entry)
                \/ ~entry.device.ok
         IN (IF skip THEN <<>>
             ELSE <<[name |-> "gpu_info", gpu_id |-> k,
                     vendor |-> gpuVendorName[vendorID],
                     model |-> getProductName(build, vendorID, deviceID),
                     vendor_id |-> vendorID, device_id |-> deviceID,
                     value |-> 1]>>)
               \o gpuMetrics(build, entries, k + 1)

\* Update of gpu_linux.go: the info metrics, then one cards_total.  Update
\* keeps nothing from one scrape to the next, so a behaviour holds one scrape.
GpuUpdate ==
    /\ gpu.build = "none"
    /\ \E dir \in GpuDirs :
       LET metrics == gpuMetrics("gpu_linux.go", dir.entries, 1)
           gpuCount == Len(metrics)
       IN /\ gpu' =
                [build |-> "gpu_linux.go", dir |-> dir,
                 sent |-> IF dir.ok /\ gpuCount > 0
                          THEN metrics \o <<[name |-> "gpu_cards_total",
                                             value |-> gpuCount]>>
                          ELSE <<>>,
                 ret |-> IF dir.ok THEN "nil" ELSE "ErrNoData"]
          /\ UNCHANGED <<env, ctl, parser, tables, call, readers, built, coll>>

\* Update of part_000: the info metrics, then one cards_total per model, in
\* the order the range over the map modelCounts happens to take.
GpuUpdateByModel ==
    /\ gpu.build = "none"
    /\ \E dir \in GpuDirs :
       LET metrics == gpuMetrics("part_000", dir.entries, 1)
           models == {metrics[k].model : k \in 1..Len(metrics)}
           modelCounts ==
               [m \in models |->
                   Cardinality({k \in 1..Len(metrics) : metrics[k].model = m})]
       IN \E order \in [1..Cardinality(models) -> models] :
             /\ \A a, b \in DOMAIN order : a # b => order[a] # order[b]
             /\ gpu' =
                   [build |-> "part_000", dir |-> dir,
                    sent |-> IF dir.ok /\ Cardinality(models) > 0
                             THEN metrics \o
                                  [j \in DOMAIN order |->
                                      [name |-> "gpu_cards_total",
                                       model |-> order[j],
                                       value |-> modelCounts[order[j]]]]
                             ELSE <<>>,
                    ret |-> IF dir.ok THEN "nil" ELSE "ErrNoData"]
             /\ UNCHANGED <<env, ctl, parser, tables, call, readers, built, coll>>

\* Scrapes of the GPU collector, in either build; the PCI database plays no
\* part in them.
SpecGpu == InitLongFiles({}) /\ [][GpuUpdate \/ GpuUpdateByModel]_vars

(***************************************************************************)
(* What a database file says, read off its lines (the pci.ids format):     *)
(* the reference the accessors' answers are compared with.                 *)
(***************************************************************************)
Loaded == pc = "done" /\ file # ""

Lines == Content

LastOf(S) == CHOOSE k \in S : \A m \in S : k >= m

\* The identifier and the name of a line body "<id>  <name>".
IdOf(body) == TrimSpace(SubSeq(body, 1, Index(body, Sep) - 1))

NameOf(body) == TrimSpace(SubSeq(body, Index(body, Sep) + Len(Sep), Len(body)))

TabsOf(l) ==
    IF HasPrefix(l, TabTabTab) THEN 3
    ELSE IF HasPrefix(l, TabTab) THEN 2
    ELSE IF HasPrefix(l, <<"\t">>) THEN 1
    ELSE 0

BodyOf(l) == SubSeq(l, TabsOf(l) + 1, Len(l))

IsClassLine(l) == HasPrefix(l, <<"C", " ">>) /\ Index(l, Sep) > 0

IsVendorLine(l) ==
    /\ l # <<>>
    /\ TabsOf(l) = 0
    /\ ~HasPrefix(l, <<"#">>)
    /\ ~HasPrefix(l, <<"C", " ">>)
    /\ Index(l, Sep) > 0

\* The vendor line that owns line k: the nearest vendor line above it, with
\* no class line in between; 0 when line k is not inside a vendor block.
OwnerVendor(k) ==
    LET Above == {j \in 1..(k - 1) : IsVendorLine(Lines[j]) \/ IsClassLine(Lines[j])}
    IN IF Above # {} /\ IsVendorLine(Lines[LastOf(Above)]) THEN LastOf(Above) ELSE 0

IsDeviceLineAt(k) ==
    /\ TabsOf(Lines[k]) = 1
    /\ Index(BodyOf(Lines[k]), Sep) > 0
    /\ OwnerVendor(k) # 0
    /\ IdOf(Lines[OwnerVendor(k)]) # <<>>

\* The device line that owns line k: the nearest device line above it inside
\* the same vendor block; 0 when there is none.
OwnerDevice(k) ==
    LET Above == {j \in (OwnerVendor(k) + 1)..(k - 1) : IsDeviceLineAt(j)}
    IN IF OwnerVendor(k) # 0 /\ Above # {} THEN LastOf(Above) ELSE 0

IsSubsystemLineAt(k) ==
    /\ TabsOf(Lines[k]) = 2
    /\ Index(BodyOf(Lines[k]), Sep) > 0
    /\ OwnerDevice(k) # 0
    /\ IdOf(Lines[OwnerDevice(k)]) # <<>>
    /\ Len(Fields(IdOf(BodyOf(Lines[k])))) = 2

\* q names id: the same hexadecimal digits in any letter case, with or
\* without a leading 0x.
Names(q, id) ==
    \/ ToLower(q) = ToLower(id)
    \/ HasPrefix(q, Str0x) /\ ToLower(TrimPrefix(q, Str0x)) = ToLower(id)

\* An identifier in normal form: lowercased, and its 0x prefix removed.
LowerStrip(q) == TrimPrefix(ToLower(q), Str0x)

\* The identifier an accessor probes its table with: the argument with a
\* leading "0x" removed, then lowercased.
Probed(q) == ToLower(TrimPrefix(q, Str0x))

NoUpper(s) == \A k \in 1..Len(s) : ~IsUpper(s[k])

IsNormal(s) == NoUpper(s) /\ ~HasPrefix(s, Str0x)

(***************************************************************************)
(* C1..C5: the vendor, device and subsystem accessors against the file.    *)
(***************************************************************************)
\* C1: for every vendor ID on a well-formed vendor line of the loaded file,
\* getVendorName, asked for that ID in any letter case and with or without
\* a leading 0x, returns the name parsed for it (the last such line's name).
C1_VendorNameOfFile ==
    (Loaded /\ op = "getVendorName") =>
        LET Hits == {k \in 1..Len(Lines) :
                        IsVendorLine(Lines[k]) /\ Names(args[1], IdOf(Lines[k]))}
        IN Hits # {} => ret = NameOf(Lines[LastOf(Hits)])

\* The keys of the inner maps of a two-level table.
KeysOf(m) == UNION {DOMAIN m[k] : k \in DOMAIN m}

AllKeys ==
    DOMAIN pciVendors \cup DOMAIN pciDevices \cup KeysOf(pciDevices)
        \cup DOMAIN pciSubsystems \cup KeysOf(pciSubsystems)
        \cup DOMAIN pciClasses \cup DOMAIN pciSubclasses \cup DOMAIN pciProgIfs

\* C2: after load every key of the six tables is lowercase and has no 0x
\* prefix, whatever the file holds, and every stored vendor, device, class,
\* subclass and programming-interface key is found again by the accessor
\* that probes its table.
C2_KeysNormalized ==
    pc = "done" =>
        /\ \A key \in AllKeys : IsNormal(key)
        /\ \A v \in DOMAIN pciVendors : getVendorName(v) = pciVendors[v]
        /\ \A v \in DOMAIN pciDevices : \A d \in DOMAIN pciDevices[v] :
              getDeviceName(v, d) = pciDevices[v][d]
        /\ \A c \in DOMAIN pciClasses : Len(c) = 2 => getClassName(c) = pciClasses[c]
        /\ \A c \in DOMAIN pciSubclasses :
              Len(c) = 4 => getClassName(c) = pciSubclasses[c]
        /\ \A c \in DOMAIN pciProgIfs :
              Len(c) = 6 => getClassName(c) = pciProgIfs[c]

\* C3 as claimed: a query whose vendor ID is not in the vendor table comes
\* back normalized: lowercased, without its 0x prefix, hence with no 0x/0X
\* prefix and no upper-case letter left.
C3_VendorMissNormalized ==
    (pc = "done" /\ op = "getVendorName" /\ ~HasKey(pciVendors, LowerStrip(args[1]))) =>
        /\ ret = LowerStrip(args[1])
        /\ ~HasPrefix(ret, Str0x)
        /\ ~HasPrefix(ret, <<"0", "X">>)
        /\ NoUpper(ret)

\* C3 as amended: on a miss the result is the query with a leading "0x"
\* removed and then lowercased, and nothing else; it holds no upper-case
\* letter, and it still starts with "0x" only when the query started with
\* "0X" or with a second prefix after the first.
C3_VendorMissProbed ==
    (pc = "done" /\ op = "getVendorName" /\ ~HasKey(pciVendors, Probed(args[1]))) =>
        /\ ret = Probed(args[1])
        /\ NoUpper(ret)
        /\ HasPrefix(ret, Str0x) =>
              \/ HasPrefix(args[1], <<"0", "X">>)
              \/ HasPrefix(ToLower(TrimPrefix(args[1], Str0x)), Str0x)

C3_Witness ==
    /\ Loaded
    /\ HasKey(pciVendors, <<"1", "a">>)
    /\ op = "getVendorName"
    /\ args = <<(<<"0", "X", "1", "a">>)>>
    /\ ret = <<"0", "x", "1", "a">>

\* C4: getDeviceName(vendor, device) returns the parsed name of every
\* (vendor, device) pair of the loaded file, and the normalized device ID
\* when the vendor or the device under it is missing.
C4_DeviceNameOfFile ==
    (Loaded /\ op = "getDeviceName") =>
        LET Hits == {k \in 1..Len(Lines) :
                        /\ IsDeviceLineAt(k)
                        /\ Names(args[1], IdOf(Lines[OwnerVendor(k)]))
                        /\ Names(args[2], IdOf(BodyOf(Lines[k])))}
        IN IF Hits # {}
           THEN ret = NameOf(BodyOf(Lines[LastOf(Hits)]))
           ELSE ret = Probed(args[2])

\* C5: getSubsystemName returns the parsed name of every (vendor, device,
\* subsystem vendor, subsystem device) quadruple of the loaded file, and the
\* normalized subsystem-device ID when any level is missing.
C5_SubsystemNameOfFile ==
    (Loaded /\ op = "getSubsystemName") =>
        LET Hits == {k \in 1..Len(Lines) :
                        /\ IsSubsystemLineAt(k)
                        /\ Names(args[1], IdOf(Lines[OwnerVendor(k)]))
                        /\ Names(args[2], IdOf(BodyOf(Lines[OwnerDevice(k)])))
                        /\ Names(args[3], Fields(IdOf(BodyOf(Lines[k])))[1])
                        /\ Names(args[4], Fields(IdOf(BodyOf(Lines[k])))[2])}
        IN IF Hits # {}
           THEN ret = NameOf(BodyOf(Lines[LastOf(Hits)]))
           ELSE ret = Probed(args[4])

\* The same statements for the files whose identifiers are already in
\* normal form: what is left of C1, C4 and C5 when load has nothing to
\* normalize.
FileIsNormal ==
    \A k \in 1..Len(Lines) :
        /\ IsVendorLine(Lines[k]) => IsNormal(IdOf(Lines[k]))
        /\ TabsOf(Lines[k]) > 0 /\ Index(BodyOf(Lines[k]), Sep) > 0 =>
              IsNormal(IdOf(BodyOf(Lines[k])))

NormalFileVendorName == FileIsNormal => C1_VendorNameOfFile

NormalFileDeviceName == FileIsNormal => C4_DeviceNameOfFile

NormalFileSubsystemName == FileIsNormal => C5_SubsystemNameOfFile

(***************************************************************************)
(* C6, C7: getClassName.                                                   *)
(***************************************************************************)
\* The keys of table m that are the first n characters of code c.
PrefixKeys(m, c, n) == {k \in DOMAIN m : Len(k) = n /\ HasPrefix(c, k)}

TheKey(S) == CHOOSE k \in S : TRUE

\* C6: getClassName answers with the most specific entry: the
\* programming-interface entry of the first 6 digits of the normalized code
\* when there is one, else the subclass entry of its first 4 digits, else
\* the class entry of its first 2 digits; a code too short for a level never
\* matches at that level.
C6_MostSpecificFirst ==
    (pc = "done" /\ op = "getClassName") =>
        LET c == Probed(args[1])
            K6 == PrefixKeys(pciProgIfs, c, 6)
            K4 == PrefixKeys(pciSubclasses, c, 4)
            K2 == PrefixKeys(pciClasses, c, 2)
        IN /\ K6 # {} => ret = pciProgIfs[TheKey(K6)]
           /\ K6 = {} /\ K4 # {} => ret = pciSubclasses[TheKey(K4)]
           /\ K6 = {} /\ K4 = {} /\ K2 # {} => ret = pciClasses[TheKey(K2)]

\* A 0x-prefixed upper-case code with entries at all three levels is
\* answered with the programming-interface name.
C6_Witness ==
    /\ pc = "done"
    /\ op = "getClassName"
    /\ args = <<(<<"0", "x", "0", "C", "0", "3", "3", "0">>)>>
    /\ HasKey(pciProgIfs, <<"0", "c", "0", "3", "3", "0">>)
    /\ HasKey(pciSubclasses, <<"0", "c", "0", "3">>)
    /\ HasKey(pciClasses, <<"0", "c">>)
    /\ ret = <<"P">>

\* strings.Contains
Contains(s, sub) == sub = <<>> \/ Index(s, sub) > 0

NoClassMatch(c) ==
    /\ PrefixKeys(pciProgIfs, c, 6) = {}
    /\ PrefixKeys(pciSubclasses, c, 4) = {}
    /\ PrefixKeys(pciClasses, c, 2) = {}

TablesEmpty ==
    /\ DOMAIN pciVendors = {}
    /\ DOMAIN pciDevices = {}
    /\ DOMAIN pciSubsystems = {}
    /\ DOMAIN pciClasses = {}
    /\ DOMAIN pciSubclasses = {}
    /\ DOMAIN pciProgIfs = {}

\* The identifier the accessor falls back to: its last argument.
InputArg == args[Len(args)]

OverrideMissing == customPath # "" /\ ~CanOpen(customPath) /\ pc = "done"

\* C8 as claimed: with an override path that cannot be opened the six
\* tables are empty and every accessor returns its normalized argument.
C8_EveryLookupReturnsInput ==
    OverrideMissing =>
        /\ TablesEmpty
        /\ op # "none" => ret = Probed(InputArg)

\* C8 as amended: the tables are empty; getVendorName, getDeviceName and
\* getSubsystemName return their normalized vendor, device and
\* subsystem-device argument, and getClassName returns the
\* "Unknown class (<normalized code>)" label.
C8_LookupsDegrade ==
    OverrideMissing =>
        /\ TablesEmpty
        /\ op \in {"getVendorName", "getDeviceName", "getSubsystemName"} =>
              ret = Probed(InputArg)
        /\ op = "getClassName" =>
              ret = UnknownClassOpen \o Probed(InputArg) \o <<")">>

C8_Witness ==
    /\ OverrideMissing
    /\ \E k \in 1..Len(pciIdsPaths) : CanOpen(pciIdsPaths[k])
    /\ op = "getDeviceName"
    /\ args = <<(<<"0", "x", "1", "a">>), (<<"0", "x", "2", "B">>)>>
    /\ ret = <<"2", "b">>

\* The vendor and class keys a file gives rise to.
VendorIdsOf(lines) ==
    {IdOf(lines[k]) : k \in {j \in 1..Len(lines) : IsVendorLine(lines[j])}}

ClassIdsOf(lines) ==
    {TrimSpace(SubSeq(lines[k], 2, Index(lines[k], Sep) - 1)) :
        k \in {j \in 1..Len(lines) : IsClassLine(lines[j])}}

\* The tables were read from the file at path, to its end.
ParsedFrom(path) ==
    /\ file = path
    /\ pos = Len(fs[path].lines)
    /\ DOMAIN pciVendors = VendorIdsOf(fs[path].lines)
    /\ DOMAIN pciClasses = ClassIdsOf(fs[path].lines)

\* C9: with a non-empty override path no default path is ever opened: the
\* override is parsed if it opens, and the tables stay empty if it does not,
\* whatever the default paths hold.
C9_OverrideExclusive ==
    customPath # "" =>
        /\ Len(opened) <= 1
        /\ \A k \in 1..Len(opened) : opened[k] = customPath
        /\ pc = "done" /\ CanOpen(customPath) => ParsedFrom(customPath)
        /\ pc = "done" /\ ~CanOpen(customPath) => file = "" /\ TablesEmpty

C9_Witness ==
    /\ OverrideMissing
    /\ CanOpen(pciIdsPaths[1])
    /\ fs[pciIdsPaths[1]].lines = <<LVendor, LDevice>>
    /\ opened = <<customPath>>
    /\ TablesEmpty

\* C10: with no override path the default paths are opened in list order,
\* each only after all before it failed; the first that opens is the one
\* file parsed, and load gives up (no file, empty tables) only when every
\* path failed.
C10_FirstReadableDefault ==
    customPath = "" =>
        /\ Len(opened) <= Len(pciIdsPaths)
        /\ \A k \in 1..Len(opened) : opened[k] = pciIdsPaths[k]
        /\ \A k \in 1..(Len(opened) - 1) : ~CanOpen(opened[k])
        /\ pc = "done" =>
              LET R == {k \in 1..Len(pciIdsPaths) : CanOpen(pciIdsPaths[k])}
              IN IF R # {}
                 THEN LET first == CHOOSE k \in R : \A m \in R : k <= m
                      IN /\ ParsedFrom(pciIdsPaths[first])
                         /\ Len(opened) = first
                 ELSE /\ file = ""
                      /\ TablesEmpty
                      /\ Len(opened) = Len(pciIdsPaths)

C10_Witness ==
    /\ customPath = ""
    /\ pc = "done"
    /\ ~CanOpen(pciIdsPaths[1])
    /\ CanOpen(pciIdsPaths[2])
    /\ opened = pciIdsPaths
    /\ file = pciIdsPaths[2]
    /\ DOMAIN pciVendors = {<<"2", "d">>}

(***************************************************************************)
(* C11..C13: the accessors as total, read-only functions of the tables.    *)
(***************************************************************************)
Digits == {"0", "1", "2", "3", "4", "5", "6", "7", "8", "9"}

\* Every character a Go string of the model can hold.
Chars ==
    {UpperLetters[k] : k \in 1..Len(UpperLetters)}
        \cup {LowerLetters[k] : k \in 1..Len(LowerLetters)}
        \cup Digits \cup {" ", "\t", ":", "(", ")", "#"}

\* C11: whatever load stored and whatever string is asked about (the empty
\* string, a bare "0x", class codes shorter than 2, 4 or 6 characters), every
\* accessor call returns a string: no call ends in a panic.
C11_AccessorsTotal ==
    (pc = "done" /\ op # "none") => ret \in Seq(Chars)

\* A five-character class code, answered from the subclass table although a
\* programming interface with the same first five characters is stored.
C11_Witness ==
    /\ pc = "done"
    /\ op = "getClassName"
    /\ args = <<(<<"0", "c", "0", "3", "3">>)>>
    /\ HasKey(pciProgIfs, <<"0", "c", "0", "3", "3", "0">>)
    /\ ret = <<"U">>

\* C12: once load has returned, no step (every lookup, hit or miss, on any
\* accessor) changes any of the six tables: no key is added, not even an
\* empty sub-table for a missed vendor, and none is removed or renamed.
C12_LookupsChangeNoTable ==
    [][(pc = "done" /\ pc' = "done") => tables' = tables]_vars

\* A device lookup has missed at the vendor level of a populated database.
C12_Witness ==
    /\ pc = "done"
    /\ op = "getDeviceName"
    /\ ~HasKey(pciDevices, Normalize(args[1]))
    /\ pciDevices # EmptyMap
    /\ ret = Normalize(args[2])

\* C13: a lookup starts only on a provider whose load has returned, and
\* every lookup that has returned, whatever the other readers did in between,
\* holds the answer the same lookup gives when run alone on the loaded tables.
C13_ReadersAgreeWithLoneLookup ==
    \A r \in Readers :
        /\ readers[r].st # "idle" => pc = "done"
        /\ (readers[r].st = "returned" /\ pc = "done") =>
               readers[r].ret = Answer(readers[r].op, readers[r].args)

\* Two lookups overlap on a loaded database: one reader has its answer, a
\* hit, while the other is still inside its own lookup.
C13_Witness ==
    /\ pc = "done"
    /\ readers["r1"].st = "returned"
    /\ readers["r1"].op = "getDeviceName"
    /\ readers["r1"].ret = <<"D">>
    /\ readers["r2"].st = "running"
    /\ readers["r2"].op = "getSubsystemName"

(***************************************************************************)
(* C14: parsing is a function of the lines.                                *)
(***************************************************************************)
\* C14: a provider loaded from the same lines as the providers constructed
\* before it ends with the same contents in all six tables (and so gives the
\* same answer to every lookup, an accessor reading nothing but its
\* arguments and the tables).
C14_SameLinesSameTables ==
    pc = "done" => \A k \in 1..Len(built) : built[k] = tables

\* A second provider has loaded a file that fills the device table from a
\* device line standing behind a vendor line.
C14_Witness ==
    /\ pc = "done"
    /\ Len(built) >= 1
    /\ built[1] = tables
    /\ pciDevices # EmptyMap
    /\ Len(Content) >= 2

(***************************************************************************)
(* C15: the round trip through a class section and a vendor block.         *)
(***************************************************************************)
EthernetController ==
    <<"E", "t", "h", "e", "r", "n", "e", "t", " ", "c", "o", "n", "t", "r",
      "o", "l", "l", "e", "r">>

IntelCorporation ==
    <<"I", "n", "t", "e", "l", " ", "C", "o", "r", "p", "o", "r", "a", "t",
      "i", "o", "n">>

I210Name ==
    <<"I", "2", "1", "0", " ", "G", "i", "g", "a", "b", "i", "t", " ", "N",
      "e", "t", "w", "o", "r", "k", " ", "C", "o", "n", "n", "e", "c", "t",
      "i", "o", "n">>

\* C15: after loading the four lines "C 02  Network controller",
\* TAB "00  Ethernet controller", "8086  Intel Corporation" and
\* TAB "1533  I210 Gigabit Network Connection", getClassName("0x0200") is
\* "Ethernet controller", getVendorName("0x8086") is "Intel Corporation" and
\* getDeviceName("0x8086", "0x1533") is "I210 Gigabit Network Connection";
\* the device line is stored as a device and not as a subclass of class 02.
C15_RoundTrip ==
    (pc = "done" /\ Content = RoundTripFile) =>
        /\ (op = "getClassName" /\ args = <<Q0x0200>>) => ret = EthernetController
        /\ (op = "getVendorName" /\ args = <<Q0x8086>>) => ret = IntelCorporation
        /\ (op = "getDeviceName" /\ args = <<Q0x8086, Q0x1533>>) => ret = I210Name
        /\ DOMAIN pciSubclasses = {<<"0", "2", "0", "0">>}
        /\ DOMAIN pciDevices = {<<"8", "0", "8", "6">>}
        /\ DOMAIN pciDevices[<<"8", "0", "8", "6">>] = {<<"1", "5", "3", "3">>}

\* The device lookup has been answered from the four-line file.
C15_Witness ==
    /\ pc = "done"
    /\ Content = RoundTripFile
    /\ op = "getDeviceName"
    /\ args = <<Q0x8086, Q0x1533>>
    /\ ret = I210Name

(***************************************************************************)
(* C16: the database and the collector's errors.                           *)
(***************************************************************************)
\* C16: NewPcideviceCollector fails only when sysfs cannot be opened, and
\* with sysfs open it returns a collector whether or not a pci.ids file
\* could be opened; Update returns an error only when PciDevices does, never
\* because of the database or of a lookup that misses.
C16_DatabaseNeverFailsCaller ==
    /\ cpc = "failed" => ~sysfsOpens
    /\ (cpc = "ready" /\ updateRet # "none") =>
          updateRet = CASE sysDevices.err = "none" -> "nil"
                        [] sysDevices.err = "ErrNotExist" -> "ErrNoData"
                        [] OTHER -> "error"

\* Names are enabled, no pci.ids file could be opened, and Update has
\* reported two devices without an error.
C16_Witness ==
    /\ cpc = "ready"
    /\ pciNames
    /\ file = ""
    /\ updateRet = "nil"
    /\ Len(emitted) = 2

(***************************************************************************)
(* C17: the composite key of the subsystem table.                          *)
(***************************************************************************)
\* The subsystem lookup of the last call found an entry.
SubsystemHit ==
    LET key == SprintfColon(Probed(args[1]), Probed(args[2]))
        subsysKey == SprintfColon(Probed(args[3]), Probed(args[4]))
    IN HasKey(pciSubsystems, key) /\ HasKey(pciSubsystems[key], subsysKey)

\* C17: a subsystem lookup for the pair (vendor ID, device ID) finds an entry
\* only if the file holds a subsystem line under that very vendor and that
\* very device: the key "<vendor>:<device>" of one pair is never the key of
\* another pair, so no pair is answered from another pair's sub-table.
C17_PairsNeverAlias ==
    (Loaded /\ op = "getSubsystemName" /\ SubsystemHit) =>
        \E k \in 1..Len(Lines) :
            /\ IsSubsystemLineAt(k)
            /\ IdOf(Lines[OwnerVendor(k)]) = Probed(args[1])
            /\ IdOf(BodyOf(Lines[OwnerDevice(k)])) = Probed(args[2])

(***************************************************************************)
(* C18..C20: the parser state carried from one line to the next.           *)
(***************************************************************************)
\* The nearest well-formed class line above line k; 0 when there is none.
ClassAbove(k) ==
    LET Above == {j \in 1..(k - 1) : IsClassLine(Lines[j])}
    IN IF Above = {} THEN 0 ELSE LastOf(Above)

\* Line k has exactly n TABs and the separator.
IsEntryLine(k, n) == TabsOf(Lines[k]) = n /\ Index(BodyOf(Lines[k]), Sep) > 0

\* C18: a class line resets the current subclass: every programming-interface
\* key comes from a two-TAB line, a subclass line above it and the class line
\* above both, with no other class line in between; a two-TAB line that
\* follows a class line before any subclass line of that class adds nothing.
C18_ClassLineResetsSubclass ==
    \A key \in DOMAIN pciProgIfs :
        \E p \in 1..pos :
            /\ IsEntryLine(p, 2)
            /\ ClassAbove(p) # 0
            /\ \E sub \in (ClassAbove(p) + 1)..(p - 1) :
                  /\ IsEntryLine(sub, 1)
                  /\ key = IdOf(Tail(Lines[ClassAbove(p)]))
                               \o IdOf(BodyOf(Lines[sub]))
                               \o IdOf(BodyOf(Lines[p]))

\* A line with no TAB in front that is no class line, comment or blank line.
ZeroIndentData(l) ==
    /\ l # <<>>
    /\ TabsOf(l) = 0
    /\ ~HasPrefix(l, <<"#">>)
    /\ ~HasPrefix(l, <<"C", " ">>)

\* The zero-indentation line, comment and blank lines apart, nearest above
\* line k; 0 when there is none.
ZeroAbove(k) ==
    LET Above == {j \in 1..(k - 1) :
                     ZeroIndentData(Lines[j]) \/ HasPrefix(Lines[j], <<"C", " ">>)}
    IN IF Above = {} THEN 0 ELSE LastOf(Above)

\* The scanner hands line pos + 1 to the loop body.
ScanStep == pc = "scan" /\ pos' = pos + 1

\* The step stores the one-TAB line k as a device of the vendor v.
StoredAsDevice(k, v) ==
    LET d == IdOf(BodyOf(Lines[k]))
    IN /\ HasKey(pciDevices', v)
       /\ HasKey(pciDevices'[v], d)
       /\ pciDevices'[v][d] = NameOf(BodyOf(Lines[k]))

\* C19 as claimed: every zero-indentation line that is no class line,
\* comment or blank line sets the current vendor, clears the current device
\* and leaves class context; behind it a two-TAB line that comes before any
\* device line adds no subsystem entry, and a one-TAB line is stored as a
\* device and never as a subclass.
C19_EveryZeroIndentLine ==
    [][ScanStep =>
          LET k == pos + 1
              l == Lines[k]
              z == ZeroAbove(k)
          IN /\ ZeroIndentData(l) =>
                    /\ currentVendor' = TrimSpace(SplitN2(l, Sep)[1])
                    /\ currentDevice' = <<>>
                    /\ inClassContext' = FALSE
             /\ (TabsOf(l) = 2 /\ z # 0 /\ ZeroIndentData(Lines[z])
                   /\ \A j \in (z + 1)..(k - 1) : ~IsEntryLine(j, 1)) =>
                    pciSubsystems' = pciSubsystems
             /\ (IsEntryLine(k, 1) /\ z # 0 /\ ZeroIndentData(Lines[z])) =>
                    /\ pciSubclasses' = pciSubclasses
                    /\ StoredAsDevice(k, TrimSpace(SplitN2(Lines[z], Sep)[1]))]_vars

\* C19: every zero-indentation line that is no class line, comment or blank
\* line and holds the two-space separator sets the current vendor, clears
\* the current device and leaves class context; up to the next well-formed
\* class or vendor line, a two-TAB line that comes before any device line
\* adds no subsystem entry, and a well-formed one-TAB line is never stored
\* as a subclass and, the vendor ID not being empty, is stored as a device.
C19_VendorLineOpensBlock ==
    [][ScanStep =>
          LET k == pos + 1
              l == Lines[k]
              z == OwnerVendor(k)
          IN /\ IsVendorLine(l) =>
                    /\ currentVendor' = IdOf(l)
                    /\ currentDevice' = <<>>
                    /\ inClassContext' = FALSE
             /\ (TabsOf(l) = 2 /\ z # 0
                   /\ \A j \in (z + 1)..(k - 1) : ~IsEntryLine(j, 1)) =>
                    pciSubsystems' = pciSubsystems
             /\ (IsEntryLine(k, 1) /\ z # 0) =>
                    /\ pciSubclasses' = pciSubclasses
                    /\ IdOf(Lines[z]) # <<>> => StoredAsDevice(k, IdOf(Lines[z]))]_vars

\* A class line, a vendor line and a one-TAB line have been scanned: the
\* last is a device of the vendor and no subclass of the class.
C19_Witness ==
    /\ pos = 3
    /\ Lines[1] = LClass
    /\ Lines[2] = LVendor
    /\ Lines[3] = LDevice
    /\ HasKey(pciDevices, <<"1", "a">>)
    /\ pciSubclasses = EmptyMap
    /\ ~inClassContext

\* The well-formed vendor line nearest above line k; 0 when there is none.
VendorAbove(k) ==
    LET Above == {j \in 1..(k - 1) : IsVendorLine(Lines[j])}
    IN IF Above = {} THEN 0 ELSE LastOf(Above)

\* The device line nearest above line k and below that vendor line; 0 when
\* there is none.
DeviceAbove(k) ==
    LET Above == {j \in (VendorAbove(k) + 1)..(k - 1) : IsDeviceLineAt(j)}
    IN IF VendorAbove(k) # 0 /\ Above # {} THEN LastOf(Above) ELSE 0

OwnerClass(k) ==
    LET Above == {j \in 1..(k - 1) : IsVendorLine(Lines[j]) \/ IsClassLine(Lines[j])}
    IN IF Above # {} /\ IsClassLine(Lines[LastOf(Above)]) THEN LastOf(Above) ELSE 0

\* The code of the class line l.
ClassIdOf(l) == IdOf(Tail(l))

\* C21: a structural line that comes before the context it depends on leaves
\* all six tables unchanged: a one-TAB line above which there is no vendor
\* and no class line, a two-TAB line of a vendor block that has no device
\* line yet, a one-TAB line of a class section whose class code is empty,
\* and a two-TAB line of a class section that has no subclass line yet.
C21_EarlyLinesDropped ==
    [][ScanStep =>
          LET k == pos + 1
              l == Lines[k]
              v == OwnerVendor(k)
              c == OwnerClass(k)
          IN /\ (TabsOf(l) = 1 /\ v = 0 /\ c = 0) => tables' = tables
             /\ (TabsOf(l) = 2 /\ v # 0
                   /\ \A j \in (v + 1)..(k - 1) : ~IsDeviceLineAt(j)) =>
                    tables' = tables
             /\ (TabsOf(l) = 1 /\ c # 0 /\ ClassIdOf(Lines[c]) = <<>>) =>
                    tables' = tables
             /\ (TabsOf(l) = 2 /\ c # 0
                   /\ \A j \in (c + 1)..(k - 1) : ~IsEntryLine(j, 1)) =>
                    tables' = tables]_vars

\* A two-TAB line of a vendor block that holds the separator and whose
\* identifier field is not two whitespace-separated tokens.
IsMalformedSubsystemAt(k) ==
    /\ TabsOf(Lines[k]) = 2
    /\ Index(BodyOf(Lines[k]), Sep) > 0
    /\ OwnerVendor(k) # 0
    /\ Len(Fields(IdOf(BodyOf(Lines[k])))) # 2

\* C22: a malformed subsystem line leaves the subsystem table, its set of
\* "vendor:device" keys included, as it was before the line, and the scan
\* moves on to the next line.
C22_MalformedSubsystemStoresNothing ==
    [][(ScanStep /\ IsMalformedSubsystemAt(pos + 1)) =>
          pciSubsystems' = pciSubsystems]_vars

\* A line that is not blank, not a comment, and holds no two-space separator.
LacksSeparator(l) == l # <<>> /\ ~HasPrefix(l, <<"#">>) /\ Index(l, Sep) = 0

\* C23: a line without the two-space separator, at any indentation and in
\* either context, changes no table and no parser state (current vendor,
\* current device, current class, current subclass, class-context flag).
C23_NoSeparatorNoChange ==
    [][(ScanStep /\ LacksSeparator(Lines[pos + 1])) =>
          (tables' = tables /\ parser' = parser)]_vars

\* A two-TAB line without the separator has been scanned while a class, a
\* subclass, or a vendor and a device were current.
C23_Witness ==
    /\ pc = "scan"
    /\ pos >= 3
    /\ LacksSeparator(Lines[pos])
    /\ TabsOf(Lines[pos]) = 2
    /\ \/ currentVendor # <<>> /\ currentDevice # <<>> /\ ~inClassContext
       \/ currentSubclass # <<>> /\ inClassContext

\* C24: the depth of a line is its exact TAB count: a line that changes the
\* subsystem table or the programming-interface table has exactly two
\* leading TABs, and a line with three or more leading TABs changes no
\* table, inside class context and outside it.
C24_ExactTabCount ==
    [][ScanStep =>
          LET l == Lines[pos + 1]
          IN /\ pciSubsystems' # pciSubsystems => TabsOf(l) = 2
             /\ pciProgIfs' # pciProgIfs => TabsOf(l) = 2
             /\ TabsOf(l) = 3 => tables' = tables]_vars

\* The keys under which two versions of a table differ.
ChangedKeys(old, new) ==
    {k \in (DOMAIN old) \union (DOMAIN new) :
        \/ k \notin DOMAIN old
        \/ k \notin DOMAIN new
        \/ old[k] # new[k]}

\* At most one key of a flat table changes.
OneEntry(old, new) == Cardinality(ChangedKeys(old, new)) <= 1

\* At most one key of a table of sub-tables changes, and under that key at
\* most one key of the sub-table.
OneNestedEntry(old, new) ==
    /\ OneEntry(old, new)
    /\ \A k \in ChangedKeys(old, new) :
          k \in DOMAIN new =>
             OneEntry(IF k \in DOMAIN old THEN old[k] ELSE EmptyMap, new[k])

\* C25: one line is taken by at most one rule: it changes at most one of
\* the six tables, and in that table adds or overwrites at most one entry;
\* an indented line of a class section changes neither the device nor the
\* subsystem table, and an indented line of a vendor block changes neither
\* the subclass nor the programming-interface table.
C25_OneRulePerLine ==
    [][ScanStep =>
          LET k == pos + 1
              l == Lines[k]
          IN /\ Cardinality({t \in 1..Len(tables) : tables'[t] # tables[t]}) <= 1
             /\ OneEntry(pciVendors, pciVendors')
             /\ OneEntry(pciClasses, pciClasses')
             /\ OneEntry(pciSubclasses, pciSubclasses')
             /\ OneEntry(pciProgIfs, pciProgIfs')
             /\ OneNestedEntry(pciDevices, pciDevices')
             /\ OneNestedEntry(pciSubsystems, pciSubsystems')
             /\ (TabsOf(l) >= 1 /\ OwnerClass(k) # 0) =>
                    (pciDevices' = pciDevices /\ pciSubsystems' = pciSubsystems)
             /\ (TabsOf(l) >= 1 /\ OwnerVendor(k) # 0) =>
                    (pciSubclasses' = pciSubclasses /\ pciProgIfs' = pciProgIfs)]_vars

(***************************************************************************)
(* C26, C27: the tables refer to one another, after every line.            *)
(***************************************************************************)
\* C26: after any prefix of any file, every vendor key of the device table
\* is a key of the vendor table, and every key of the subsystem table is
\* "v:d" for a vendor v of the device table and a device d of v's sub-table.
C26_VendorHierarchyClosed ==
    /\ \A v \in DOMAIN pciDevices : v \in DOMAIN pciVendors
    /\ \A key \in DOMAIN pciSubsystems :
          \E v \in DOMAIN pciDevices :
             \E d \in DOMAIN pciDevices[v] : key = SprintfColon(v, d)

\* Lines of a file have been scanned, and they have stored two vendors, a
\* device and a subsystem.
C26_Witness ==
    /\ pc = "scan"
    /\ Cardinality(DOMAIN pciVendors) >= 2
    /\ pciDevices # EmptyMap
    /\ \E key \in DOMAIN pciSubsystems : pciSubsystems[key] # EmptyMap

\* C27: after any prefix of any file, every key of the subclass table is a
\* key of the class table followed by a subclass code, and every key of the
\* programming-interface table is a key of the subclass table followed by
\* a programming-interface code; so for a file of two-digit codes, where
\* getClassName answers a 6-digit code from the programming-interface
\* table, it answers the 4-digit prefix from the subclass table and the
\* 2-digit prefix from the class table.
C27_ClassHierarchyClosed ==
    /\ \A k \in DOMAIN pciSubclasses :
          \E c \in DOMAIN pciClasses : HasPrefix(k, c) /\ Len(k) >= Len(c)
    /\ \A k \in DOMAIN pciProgIfs :
          \E sc \in DOMAIN pciSubclasses : HasPrefix(k, sc) /\ Len(k) >= Len(sc)
    /\ \A k \in DOMAIN pciProgIfs :
          (Len(k) = 6 /\ getClassName(k) = pciProgIfs[k]) =>
             /\ SubSeq(k, 1, 4) \in DOMAIN pciSubclasses
             /\ getClassName(SubSeq(k, 1, 4)) = pciSubclasses[SubSeq(k, 1, 4)]
             /\ SubSeq(k, 1, 2) \in DOMAIN pciClasses
             /\ getClassName(SubSeq(k, 1, 2)) = pciClasses[SubSeq(k, 1, 2)]

\* Lines of a file have been scanned, and they have stored a class, a
\* subclass of it and a programming interface of that subclass.
C27_Witness ==
    /\ pc = "scan"
    /\ \E k \in DOMAIN pciProgIfs :
          /\ Len(k) = 6
          /\ SubSeq(k, 1, 4) \in DOMAIN pciSubclasses
          /\ SubSeq(k, 1, 2) \in DOMAIN pciClasses

(***************************************************************************)
(* C28: an accessor applied to its own answer.                             *)
(***************************************************************************)
\* The accessor missed: its answer is the identifier it fell back to.
VendorMissed ==
    pc = "done" /\ op = "getVendorName" /\ ~HasKey(pciVendors, Probed(args[1]))

DeviceMissed ==
    /\ pc = "done"
    /\ op = "getDeviceName"
    /\ ~(/\ HasKey(pciDevices, Probed(args[1]))
         /\ HasKey(pciDevices[Probed(args[1])], Probed(args[2])))

SubsystemMissed == pc = "done" /\ op = "getSubsystemName" /\ ~SubsystemHit

\* C28 as stated: for every identifier an accessor misses on, an upper-case
\* "0X" prefix and a doubled "0x0x" prefix included, the accessor asked for
\* its own answer gives that answer again.
C28_NormalizationIdempotent ==
    /\ VendorMissed => getVendorName(ret) = ret
    /\ DeviceMissed => getDeviceName(args[1], ret) = ret
    /\ SubsystemMissed => getSubsystemName(args[1], args[2], args[3], ret) = ret

\* C28 as amended: the accessor asked for its own answer gives that answer
\* again when the identifier, after one leading "0x" is removed and the rest
\* lowercased, does not start with "0x"; when it does, the second call
\* removes that prefix too and gives another answer.
C28_IdempotentOnSinglePrefix ==
    /\ VendorMissed =>
          (getVendorName(ret) = ret <=> ~HasPrefix(Probed(args[1]), Str0x))
    /\ DeviceMissed =>
          (getDeviceName(args[1], ret) = ret <=> ~HasPrefix(Probed(args[2]), Str0x))
    /\ SubsystemMissed =>
          (getSubsystemName(args[1], args[2], args[3], ret) = ret
             <=> ~HasPrefix(Probed(args[4]), Str0x))

\* getVendorName has missed on a prefixed identifier with upper-case digits
\* and has answered with the bare lower-case digits.
C28_Witness ==
    /\ VendorMissed
    /\ args[1] = <<"0", "x", "2", "D">>
    /\ ret = <<"2", "d">>

(***************************************************************************)
(* C29: a vendor ID that comes back on a later vendor line.                *)
(***************************************************************************)
\* The vendor lines and the device lines among the lines scanned so far.
ScannedVendorLines == {k \in 1..pos : IsVendorLine(Lines[k]) /\ IdOf(Lines[k]) # <<>>}

ScannedDeviceLines == {k \in 1..pos : IsDeviceLineAt(k)}

VendorIdAt(k) == IdOf(Lines[OwnerVendor(k)])

\* C29: when a vendor ID stands on several vendor lines, the vendor table
\* holds the name of the last of them, and the device lines that follow any
\* of them are all kept in the one device sub-table of that vendor, a
\* repeated device ID under the name of its last line: a later vendor line
\* discards nothing stored after an earlier one.
C29_RepeatedVendorKeepsDevices ==
    file # "" =>
       /\ \A k \in ScannedVendorLines :
             /\ HasKey(pciVendors, IdOf(Lines[k]))
             /\ pciVendors[IdOf(Lines[k])] =
                   NameOf(Lines[LastOf({j \in ScannedVendorLines :
                                           IdOf(Lines[j]) = IdOf(Lines[k])})])
       /\ \A k \in ScannedDeviceLines :
             LET v == VendorIdAt(k)
                 d == IdOf(BodyOf(Lines[k]))
                 last == LastOf({j \in ScannedDeviceLines :
                                    /\ VendorIdAt(j) = v
                                    /\ IdOf(BodyOf(Lines[j])) = d})
             IN /\ HasKey(pciDevices, v)
                /\ HasKey(pciDevices[v], d)
                /\ pciDevices[v][d] = NameOf(BodyOf(Lines[last]))

\* A vendor ID has come back on a second vendor line under another name, a
\* device line follows each of the two lines, and all four are scanned.
C29_Witness ==
    /\ pc = "scan"
    /\ pos = 4
    /\ IsVendorLine(Lines[1]) /\ IsVendorLine(Lines[3])
    /\ IdOf(Lines[1]) = IdOf(Lines[3])
    /\ NameOf(Lines[1]) # NameOf(Lines[3])
    /\ IsDeviceLineAt(2) /\ IsDeviceLineAt(4)
    /\ IdOf(BodyOf(Lines[2])) # IdOf(BodyOf(Lines[4]))
    /\ Cardinality(DOMAIN pciDevices[IdOf(Lines[1])]) = 2

(***************************************************************************)
(* C30: label names and label values of the PCI device info metric.        *)
(***************************************************************************)
\* C30: in a constructed collector the database instance exists exactly
\* when name resolution is enabled, the descriptor has 14 label names when
\* it is disabled and 19 when it is enabled, and Update gives every info
\* metric as many values as the descriptor has names, so the metric is
\* never refused; the same when no pci.ids file could be opened.
C30_ValuesMatchLabels ==
    cpc = "ready" =>
       /\ pciProvider <=> pciNames
       /\ Len(labelNames) = IF pciNames THEN 19 ELSE 14
       /\ Len(labelNames) =
             Len(BaseLabels) + (IF pciNames THEN Len(NameLabels) ELSE 0)
       /\ updateRet # "panic"
       /\ \A k \in 1..Len(emitted) : Len(emitted[k]) = Len(labelNames)

\* Names are enabled, no pci.ids file could be opened, and Update has sent
\* an info metric of 19 values.
C30_Witness ==
    /\ cpc = "ready"
    /\ pciNames
    /\ file = ""
    /\ updateRet = "nil"
    /\ emitted # <<>>
    /\ Len(emitted[1]) = 19

(***************************************************************************)
(* C31: what one scrape of the GPU collector sends.                        *)
(***************************************************************************)
\* The drivers a build takes for GPU drivers.
ValidGpuDrivers ==
    {"nvidia", "nouveau", "amdgpu", "radeon", "i915", "xe"}
       \cup (IF gpu.build = "part_000" THEN {"vfio-pci"} ELSE {})

\* A PCI entry that is a GPU: a display class, a vendor that is NVIDIA, AMD
\* or Intel and no BMC vendor, a valid GPU driver bound, a readable device ID.
IsGpuEntry(e) ==
    /\ e.class.ok
    /\ Len(e.class.text) >= 4
    /\ SubSeq(e.class.text, 1, 4) = <<"0", "x", "0", "3">>
    /\ e.vendor.ok
    /\ e.vendor.text \notin {"0x1a03", "0x102b"}
    /\ e.vendor.text \in {"0x10de", "0x1002", "0x8086"}
    /\ e.driver \in ValidGpuDrivers
    /\ e.device.ok

\* The metrics of one name among the metrics sent, by their places.
SentNamed(n) == {j \in 1..Len(gpu.sent) : gpu.sent[j].name = n}

RECURSIVE SumOfValues(_)
SumOfValues(S) ==
    IF S = {} THEN 0
    ELSE LET j == CHOOSE x \in S : TRUE
         IN gpu.sent[j].value + SumOfValues(S \ {j})

====
